---------------------------- MODULE Spec2Model ----------------------------
(***************************************************************************)
(* A model of the runner backend: the deployment orchestrator              *)
(* (RunnerServiceImpl), the error classifier (ErrorHandlingService) and    *)
(* the parts of the container runtime adapter and of the monitoring engine *)
(* the orchestrator drives.                                                *)
(*                                                                         *)
(* JavaScript runs every handler to its next `await` without interruption, *)
(* so an action of the model is one such run: from the call (or from the   *)
(* settlement of the promise the handler awaits) to the next await, or to  *)
(* the handler's return or throw.                                          *)
(***************************************************************************)
EXTENDS Integers, Sequences, FiniteSets, TLC

(***************************************************************************)
(* Bounds of the model.                                                    *)
(***************************************************************************)
\* start() calls that are accepted (Instance records ever created)
MaxInstances == 2
\* calls and timer ticks the orchestrator handles in one behaviour: accepted
\* start() calls, stop() and status() calls on known instances, health ticks
MaxEvents == 3

(***************************************************************************)
(* Strings.  TLC evaluates Len, SubSeq and \o on strings, so a message is  *)
(* the string the code builds and String.prototype.includes is a search.   *)
(***************************************************************************)
Includes(s, p) ==
  \E k \in 1..(Len(s) + 1 - Len(p)) : SubSeq(s, k, k + Len(p) - 1) = p

UpperChars == "ABCDEFGHIJKLMNOPQRSTUVWXYZ"
LowerChars == "abcdefghijklmnopqrstuvwxyz"

\* the lower-case form of each upper-case letter
LowerOf ==
  [c \in {SubSeq(UpperChars, k, k) : k \in 1..26} |->
     LET k == CHOOSE j \in 1..26 : SubSeq(UpperChars, j, j) = c
     IN  SubSeq(LowerChars, k, k)]

LowerChar(c) == IF c \in DOMAIN LowerOf THEN LowerOf[c] ELSE c

\* String.prototype.toLowerCase, letter by letter
RECURSIVE ToLowerCase(_)
ToLowerCase(s) ==
  IF Len(s) = 0 THEN s
  ELSE IF Len(s) = 1 THEN LowerChar(s)
  ELSE LET half == Len(s) \div 2
       IN  ToLowerCase(SubSeq(s, 1, half)) \o ToLowerCase(SubSeq(s, half + 1, Len(s)))

(***************************************************************************)
(* ErrorHandlingService: the classifier.  A context is the operation name  *)
(* and the instance id; a RunnerError keeps the fields the callers read.   *)
(***************************************************************************)
ErrorContext(operation, instanceId) ==
  [operation |-> operation, instanceId |-> instanceId]

RunnerError(code, message, userMessage, context, severity, recoverable, retryable) ==
  [code |-> code, message |-> message, userMessage |-> userMessage,
   context |-> context, severity |-> severity,
   recoverable |-> recoverable, retryable |-> retryable]

isDockerError(message, context) ==
  LET lowerMessage   == ToLowerCase(message)
      lowerOperation == ToLowerCase(context.operation)
  IN  \/ Includes(lowerMessage, "docker")
      \/ Includes(lowerMessage, "container")
      \/ Includes(lowerMessage, "image")
      \/ Includes(lowerMessage, "daemon")
      \/ Includes(lowerOperation, "docker")
      \/ Includes(lowerOperation, "build")
      \/ Includes(lowerOperation, "run")

isGitError(message, context) ==
  \/ Includes(message, "git")
  \/ Includes(message, "repository")
  \/ Includes(message, "clone")
  \/ Includes(context.operation, "git")
  \/ Includes(context.operation, "clone")

isConfigError(message, context) ==
  \/ Includes(message, "config")
  \/ Includes(message, "annotation")
  \/ Includes(message, "yaml")
  \/ Includes(context.operation, "config")

\* createDockerError hands a message with this text back to handleError
\* (line 303-305), which classifies it as a Docker error again.
ReentersHandleError(message) == Includes(message, "docker: command not found")

\* the rules without the one for timeouts
createDockerErrorWithoutTimeout(message, context) ==
  IF Includes(message, "Cannot connect to the Docker daemon")
  THEN RunnerError("DOCKER_DAEMON_NOT_RUNNING", message,
         "Docker daemon is not running. Please start Docker and try again.",
         context, "high", TRUE, TRUE)
  ELSE IF Includes(message, "port is already allocated") \/ Includes(message, "already in use")
  THEN RunnerError("PORT_ALREADY_IN_USE", message,
         "The required port is already in use. Please stop other services using this port or choose a different port.",
         context, "medium", TRUE, FALSE)
  ELSE IF Includes(message, "No such file or directory") /\ Includes(message, "Dockerfile")
  THEN RunnerError("DOCKERFILE_NOT_FOUND", message,
         "Dockerfile not found in the repository. Please ensure the Dockerfile exists at the specified path.",
         context, "high", FALSE, FALSE)
  ELSE IF Includes(message, "build failed") \/ Includes(message, "RUN")
  THEN RunnerError("DOCKER_BUILD_FAILED", message,
         "Docker build failed. Please check your Dockerfile and build configuration.",
         context, "high", FALSE, TRUE)
  ELSE RunnerError("DOCKER_OPERATION_FAILED", message,
         "Docker operation failed. Please check the logs for more details.",
         context, "medium", TRUE, TRUE)

\* createDockerError, for a message that does not re-enter handleError
createDockerError(message, context) ==
  IF Includes(message, "Cannot connect to the Docker daemon")
  THEN RunnerError("DOCKER_DAEMON_NOT_RUNNING", message,
         "Docker daemon is not running. Please start Docker and try again.",
         context, "high", TRUE, TRUE)
  ELSE IF Includes(message, "port is already allocated") \/ Includes(message, "already in use")
  THEN RunnerError("PORT_ALREADY_IN_USE", message,
         "The required port is already in use. Please stop other services using this port or choose a different port.",
         context, "medium", TRUE, FALSE)
  ELSE IF Includes(message, "No such file or directory") /\ Includes(message, "Dockerfile")
  THEN RunnerError("DOCKERFILE_NOT_FOUND", message,
         "Dockerfile not found in the repository. Please ensure the Dockerfile exists at the specified path.",
         context, "high", FALSE, FALSE)
  ELSE IF Includes(message, "build failed") \/ Includes(message, "RUN")
  THEN RunnerError("DOCKER_BUILD_FAILED", message,
         "Docker build failed. Please check your Dockerfile and build configuration.",
         context, "high", FALSE, TRUE)
  ELSE IF Includes(message, "timeout") \/ Includes(message, "timed out")
  THEN RunnerError("DOCKER_OPERATION_TIMEOUT", message,
         "Docker operation timed out. This might be due to slow network or large image size.",
         context, "medium", TRUE, TRUE)
  ELSE RunnerError("DOCKER_OPERATION_FAILED", message,
         "Docker operation failed. Please check the logs for more details.",
         context, "medium", TRUE, TRUE)

createGitError(message, context) ==
  IF Includes(message, "git: command not found")
  THEN RunnerError("GIT_NOT_INSTALLED", message,
         "Git is not installed or not available in PATH. Please install Git.",
         context, "critical", FALSE, FALSE)
  ELSE IF Includes(message, "Repository not found") \/ Includes(message, "fatal: repository")
  THEN RunnerError("REPOSITORY_NOT_FOUND", message,
         "Repository not found or access denied. Please check the repository URL and permissions.",
         context, "high", FALSE, FALSE)
  ELSE IF Includes(message, "Authentication failed") \/ Includes(message, "Permission denied")
  THEN RunnerError("GIT_AUTHENTICATION_FAILED", message,
         "Git authentication failed. Please check your credentials and repository permissions.",
         context, "high", FALSE, FALSE)
  ELSE RunnerError("GIT_OPERATION_FAILED", message,
         "Git operation failed. Please check the repository URL and try again.",
         context, "medium", TRUE, TRUE)

createConfigError(message, context) ==
  IF Includes(message, "config.yml") \/ Includes(message, "configuration")
  THEN RunnerError("INVALID_CONFIGURATION", message,
         "Invalid runner configuration. Please check your .runner/config.yml file.",
         context, "high", FALSE, FALSE)
  ELSE IF Includes(message, "annotation") \/ Includes(message, "runner.backstage.io")
  THEN RunnerError("MISSING_RUNNER_ANNOTATION", message,
         "Component is missing required runner annotations. Please add runner.backstage.io/enabled annotation.",
         context, "medium", FALSE, FALSE)
  ELSE RunnerError("CONFIGURATION_ERROR", message,
         "Configuration error. Please check your component configuration.",
         context, "medium", FALSE, FALSE)

\* the domains tried in the order source-acquisition, container-runtime
categorizeErrorGitFirst(message, context) ==
  IF isGitError(message, context) THEN createGitError(message, context)
  ELSE IF isDockerError(message, context) THEN createDockerError(message, context)
  ELSE IF isConfigError(message, context) THEN createConfigError(message, context)
  ELSE RunnerError("UNKNOWN_ERROR", message,
         "An unexpected error occurred. Please try again or contact support.",
         context, "medium", TRUE, TRUE)

\* categorizeError, for a message on which the classification returns
categorizeError(message, context) ==
  IF isDockerError(message, context) THEN createDockerError(message, context)
  ELSE IF isGitError(message, context) THEN createGitError(message, context)
  ELSE IF isConfigError(message, context) THEN createConfigError(message, context)
  ELSE RunnerError("UNKNOWN_ERROR", message,
         "An unexpected error occurred. Please try again or contact support.",
         context, "medium", TRUE, TRUE)

\* handleError -> categorizeError -> createDockerError -> handleError with
\* the same arguments: the call never returns a RunnerError, the engine
\* raises RangeError out of handleError before anything is logged or stored.
HandleErrorOverflows(message, context) ==
  isDockerError(message, context) /\ ReentersHandleError(message)

StackOverflowMessage == "Maximum call stack size exceeded"

\* private maxHistorySize
maxHistorySize == 1000

\* the newest entry is dropped at the cap
addToHistoryDropsNewest(history, error) ==
  IF Len(history) >= maxHistorySize THEN history ELSE Append(history, error)

addToHistory(history, error) ==
  LET pushed == Append(history, error)
  IN  IF Len(pushed) > maxHistorySize THEN Tail(pushed) ELSE pushed


(***************************************************************************)
(* DeploymentProgress (RunnerServiceImpl.createInitialDeploymentProgress   *)
(* and updateDeploymentProgress).  A step is its status; a timestamp is    *)
(* the ordinal of the update that wrote it (0: not set).                   *)
(***************************************************************************)
StepTypes ==
  <<"downloading_repository", "extracting_files", "building_image",
    "starting_container", "monitoring_container">>

StepIndex(stepType) ==
  IF \E k \in 1..Len(StepTypes) : StepTypes[k] = stepType
  THEN CHOOSE k \in 1..Len(StepTypes) : StepTypes[k] = stepType
  ELSE 0

createInitialDeploymentProgress ==
  [currentStep     |-> "downloading_repository",
   steps           |-> [k \in 1..Len(StepTypes) |-> "pending"],
   overallProgress |-> 0,
   isComplete      |-> FALSE,
   hasError        |-> FALSE,
   completedAt     |-> 0,
   updates         |-> 0]

\* Math.round(x / y) for naturals x, y
RoundDiv(x, y) == (2 * x + y) \div (2 * y)

updateDeploymentProgress(progress, stepType, status) ==
  LET stepIndex == StepIndex(stepType)
  IN  IF stepIndex = 0 THEN progress
      ELSE
        LET steps          == [progress.steps EXCEPT ![stepIndex] = status]
            totalSteps     == Len(steps)
            completedSteps == Cardinality({k \in 1..totalSteps : steps[k] = "completed"})
            hasError       == \E k \in 1..totalSteps : steps[k] = "failed"
            isComplete     == completedSteps = totalSteps \/ hasError
            now            == progress.updates + 1
        IN  [currentStep     |->
               IF status = "completed"
               THEN IF stepIndex + 1 <= totalSteps
                    THEN StepTypes[stepIndex + 1]
                    ELSE progress.currentStep
               ELSE IF status = "in_progress" THEN stepType
               ELSE progress.currentStep,
             steps           |-> steps,
             overallProgress |-> RoundDiv(completedSteps * 100, totalSteps),
             isComplete      |-> isComplete,
             hasError        |-> hasError,
             completedAt     |->
               IF isComplete /\ progress.completedAt = 0 THEN now
               ELSE progress.completedAt,
             updates         |-> now]

(***************************************************************************)
(* The catalog entities a start request names, the deployment descriptor   *)
(* ConfigService reads for each, and the messages the stages of            *)
(* startComponent fail with.                                               *)
(***************************************************************************)
\* One entity, whose descriptor asks for a health check.  A descriptor
\* without one sets no timer: its behaviours are those in which the timer
\* below never fires.
Entities == {"web"}

ComponentRef(e) == "Component:default/" \o e

SourceLocation(e) == "https://github.com/test/" \o e

\* .runner/config.yml of the entity, as validateConfig returns it
RunnerConfig(e) ==
  [type |-> "docker", dockerfile |-> "./Dockerfile",
   ports |-> <<3000>>, healthCheck |-> TRUE]

EntityOf(componentRef) == CHOOSE e \in Entities : ComponentRef(e) = componentRef

\* the promise startComponent awaits at each suspension point
Awaits ==
  <<"getRunnerConfig", "downloadTarballArchive", "extractTarball",
    "buildImage", "runContainer">>

\* the messages of the errors each awaited call rejects with
FailureMessages(await, e) ==
  CASE await = "getRunnerConfig" ->
         {"Configuration file not found: .runner/config.yml. Please ensure the file exists in the repository."}
    [] await = "downloadTarballArchive" ->
         {"Repository not found: " \o SourceLocation(e)
            \o ". Please check the repository URL and access permissions."}
    [] await = "extractTarball" ->
         {"Failed to download repository: incorrect header check"}
    [] await = "buildImage" ->
         {"Dockerfile not found at: " \o RunnerConfig(e).dockerfile,
          "Docker build timed out after 600 seconds",
          "Docker build failed: /bin/bash: line 1: docker: command not found"}
    [] await = "runContainer" ->
         {"Ports already in use: 3000",
          "Failed to start container: docker: Error response from daemon: Conflict."}
    [] OTHER -> {}

\* the messages DockerService.stopContainer rejects with
StopFailureMessages(containerId) ==
  {"Failed to stop container: " \o ToString(containerId),
   "Docker stop process failed: spawn docker ENOENT"}

\* every message a stage or the runtime stop fails with
KnownMessages ==
  UNION {FailureMessages(Awaits[k], e) : k \in 1..Len(Awaits), e \in Entities}
    \cup UNION {StopFailureMessages(c) : c \in 1..MaxInstances}

Operations == {"startComponent", "stopComponent"}

\* categorizeError and the overflow test of each known message under each
\* operation, evaluated once; the instance id of the context is 0 here
Classified ==
  [operation \in Operations |->
     [message \in KnownMessages |->
        LET context == ErrorContext(operation, 0)
        IN  IF HandleErrorOverflows(message, context)
            THEN [overflows |-> TRUE]
            ELSE [overflows |-> FALSE,
                  error     |-> categorizeError(message, context)]]]

\* handleError (lines 285-295) as its caller sees it: it overflows the
\* stack, or it returns the RunnerError it has appended to the history
handleErrorOverflows(message, context) ==
  Classified[context.operation][message].overflows

handleErrorReturns(message, context) ==
  [Classified[context.operation][message].error EXCEPT !.context = context]

(***************************************************************************)
(* State.                                                                  *)
(***************************************************************************)
VARIABLES
  instances,            \* RunnerServiceImpl.instances: id -> RunnerInstance
  currentInstance,      \* RunnerServiceImpl.currentInstance (0: null)
  pc,                   \* per Instance: what its startComponent call awaits
  stopCalls,            \* per Instance: stopComponent calls awaiting stopContainer
  nEvents,              \* calls and timer ticks handled so far
  statusProbes,         \* per Instance: getStatus calls awaiting isContainerRunning
  healthTimer,          \* per Instance: the setInterval of startHealthCheck is set
  tickProbes,           \* per Instance: health ticks awaiting isContainerRunning
  alive,                \* per container: docker ps lists it
  processes,            \* DockerService.processes: instance ids with a run process
  monitoringIntervals,  \* ContainerMonitoringService.monitoringIntervals: its keys
  healthChecks,         \* ContainerMonitoringService.healthChecks
  metrics,              \* ContainerMonitoringService.metrics
  errorHistory,         \* ErrorHandlingService.errorHistory
  reply,                \* how the latest completed call ended
  healthProbes,         \* per container: performHealthCheck runs awaiting isContainerRunning
  metricsProbes,        \* per container: collectMetrics runs awaiting getContainerStats
  now,                  \* the clock the monitoring engine stamps its entries with
  buildCache,           \* DockerService.buildCache: cache key -> image name
  dockerCalls,          \* buildImage and runContainer calls that have not ended
  spawned,              \* the docker build and docker run processes spawned so far
  occupied,             \* the ports of the host that are in use
  dockerfiles,          \* the <<repoPath, dockerfile>> that exist on disk
  dockerReply,          \* how the latest completed DockerService call ended
  classification,       \* a createDockerError call made on its own, and how it ended
  requests,             \* POST /start requests the router has not answered or handed on
  held,                 \* the value a reader of a history was handed last
  timers                \* per key of monitoringIntervals: setInterval timers not cleared

vars ==
  <<instances, currentInstance, pc, stopCalls, nEvents, statusProbes,
    healthTimer, tickProbes, alive, processes, monitoringIntervals,
    healthChecks, metrics, errorHistory, reply,
    healthProbes, metricsProbes, now,
    buildCache, dockerCalls, spawned, occupied, dockerfiles, dockerReply,
    classification, requests, held, timers>>

\* what only DockerService called on its own writes
adapterVars ==
  <<buildCache, dockerCalls, spawned, occupied, dockerfiles, dockerReply>>

\* no reader holds a value
NoRead == [source |-> "none", containerId |-> 0, live |-> FALSE, seen |-> << >>]

\* the keys startMonitoring writes for a container: lines 119-120
IntervalKeys(containerId) == {<<containerId, "health">>, <<containerId, "metrics">>}

\* no interval timer is set
NoTimers == [key \in UNION {IntervalKeys(c) : c \in 1..MaxInstances} |-> 0]

\* no createDockerError call has been made on its own
NoClassification == [message |-> "", operation |-> "", outcome |-> "none"]

\* what only the loops of the monitoring engine write
monitoringVars == <<healthProbes, metricsProbes, now>>

InstanceIds == 1..MaxInstances

Created == 1..Len(instances)

Returned(op, id) ==
  [op |-> op, id |-> id, outcome |-> "returned", message |-> ""]

Threw(op, id, message) ==
  [op |-> op, id |-> id, outcome |-> "threw", message |-> message]

Init ==
  /\ instances = << >>
  /\ currentInstance = 0
  /\ pc = [i \in InstanceIds |-> "idle"]
  /\ stopCalls = [i \in InstanceIds |-> 0]
  /\ nEvents = 0
  /\ statusProbes = [i \in InstanceIds |-> 0]
  /\ healthTimer = [i \in InstanceIds |-> FALSE]
  /\ tickProbes = [i \in InstanceIds |-> 0]
  /\ alive = [i \in InstanceIds |-> FALSE]
  /\ processes = {}
  /\ monitoringIntervals = {}
  /\ healthChecks = << >>
  /\ metrics = << >>
  /\ errorHistory = << >>
  /\ reply = [op |-> "none", id |-> 0, outcome |-> "none", message |-> ""]
  /\ healthProbes = [c \in InstanceIds |-> 0]
  /\ metricsProbes = [c \in InstanceIds |-> {}]
  /\ now = 0
  /\ buildCache = << >>
  /\ dockerCalls = {}
  /\ spawned = {}
  /\ occupied = {}
  /\ dockerfiles = {}
  /\ dockerReply = [op |-> "none", instanceId |-> 0, outcome |-> "none", value |-> ""]
  /\ classification = NoClassification
  /\ requests = {}
  /\ held = NoRead
  /\ timers = NoTimers


(***************************************************************************)
(* ContainerMonitoringService.startMonitoring and stopMonitoring, as the   *)
(* maps they leave behind.  The two loops of a container are the keys      *)
(* <<c, "health">> and <<c, "metrics">> of monitoringIntervals.            *)
(***************************************************************************)
MapSet(map, key, value) ==
  [k \in DOMAIN map \cup {key} |-> IF k = key THEN value ELSE map[k]]

startMonitoringIntervals(intervals, containerId) ==
  intervals \cup {<<containerId, "health">>, <<containerId, "metrics">>}

\* lines 105-116: setInterval twice, whatever the map holds
startMonitoringTimers(running, containerId) ==
  [key \in DOMAIN running |->
     IF key \in IntervalKeys(containerId) THEN running[key] + 1 ELSE running[key]]

\* lines 129-140: clearInterval of the handles the map holds for the container
stopMonitoringTimers(running, intervals, containerId) ==
  [key \in DOMAIN running |->
     IF key \in IntervalKeys(containerId) \cap intervals
     THEN running[key] - 1 ELSE running[key]]

startMonitoringHealth(health, containerId) ==
  MapSet(health, containerId, [status |-> "starting", checks |-> << >>])

\* the intervals are left running
stopMonitoringKeepsIntervals(intervals, containerId) == intervals

stopMonitoringIntervals(intervals, containerId) ==
  intervals \ {<<containerId, "health">>, <<containerId, "metrics">>}

stopMonitoringHealth(health, containerId) ==
  IF containerId \in DOMAIN health
  THEN [health EXCEPT ![containerId].status = "unknown"]
  ELSE health

(***************************************************************************)
(* RunnerServiceImpl.startComponent.                                       *)
(***************************************************************************)
\* the guard left out: a start is never refused
SlotNeverBusy == FALSE

\* the guard of lines 146-151
SlotBusy ==
  /\ currentInstance # 0
  /\ currentInstance \in Created
  /\ instances[currentInstance].status = "running"

NewInstance(id, e) ==
  [id                 |-> id,
   componentRef       |-> ComponentRef(e),
   status             |-> "starting",
   containerId        |-> 0,
   ports              |-> << >>,
   stoppedAt          |-> FALSE,
   error              |-> "",
   deploymentProgress |-> createInitialDeploymentProgress]

\* the id `docker run -d` prints for the container of instance i
DockerContainerId(i) == i

\* the slot is cleared whichever Instance holds it
ReleaseSlotOfAnyHolder(id) == 0

\* lines 260-262, 302-304 and 545-547
ReleaseSlot(id) == IF currentInstance = id THEN 0 ELSE currentInstance

Step(inst, stepType, status) ==
  [inst EXCEPT !.deploymentProgress =
     updateDeploymentProgress(inst.deploymentProgress, stepType, status)]

\* lines 144-171: the slot check, the new record, the slot, and the call of
\* getRunnerConfig
startComponentEntered(e) ==
  /\ UNCHANGED <<monitoringVars, adapterVars, classification>>
  /\ IF SlotBusy
     THEN /\ reply' = Threw("start", 0, "Another component is already running. Stop it first.")
          /\ UNCHANGED <<instances, currentInstance, pc, stopCalls, nEvents,
                         statusProbes, healthTimer, tickProbes, alive, processes,
                         monitoringIntervals, healthChecks, metrics, errorHistory>>
     ELSE /\ Len(instances) < MaxInstances
          /\ nEvents < MaxEvents
          /\ nEvents' = nEvents + 1
          /\ LET instanceId == Len(instances) + 1
             IN  /\ instances' = Append(instances, NewInstance(instanceId, e))
                 /\ currentInstance' = instanceId
                 /\ pc' = [pc EXCEPT ![instanceId] = "getRunnerConfig"]
          /\ UNCHANGED <<stopCalls, statusProbes, healthTimer, tickProbes, alive,
                         processes, monitoringIntervals, healthChecks, metrics,
                         errorHistory, reply>>

\* startComponent called by any caller
StartComponent(e) ==
  startComponentEntered(e) /\ UNCHANGED <<requests, held, timers>>

\* lines 171-176 and cloneRepository to its first await
ConfigLoaded(i) ==
  /\ UNCHANGED <<monitoringVars, adapterVars, classification, requests, held, timers>>
  /\ pc[i] = "getRunnerConfig"
  /\ LET config == RunnerConfig(EntityOf(instances[i].componentRef))
         withPorts == [instances[i] EXCEPT !.ports = config.ports]
     IN  instances' = [instances EXCEPT ![i] =
                         Step(withPorts, "downloading_repository", "in_progress")]
  /\ pc' = [pc EXCEPT ![i] = "downloadTarballArchive"]
  /\ UNCHANGED <<currentInstance, stopCalls, nEvents, statusProbes, healthTimer,
                 tickProbes, alive, processes, monitoringIntervals,
                 healthChecks, metrics, errorHistory, reply>>

\* cloneRepository, lines 436-451: the archive arrived, extraction begins
RepositoryDownloaded(i) ==
  /\ UNCHANGED <<monitoringVars, adapterVars, classification, requests, held, timers>>
  /\ pc[i] = "downloadTarballArchive"
  /\ instances' = [instances EXCEPT ![i] =
                     Step(instances[i], "extracting_files", "in_progress")]
  /\ pc' = [pc EXCEPT ![i] = "extractTarball"]
  /\ UNCHANGED <<currentInstance, stopCalls, nEvents, statusProbes, healthTimer,
                 tickProbes, alive, processes, monitoringIntervals,
                 healthChecks, metrics, errorHistory, reply>>

\* cloneRepository returns; lines 177-184
TarballExtracted(i) ==
  /\ UNCHANGED <<monitoringVars, adapterVars, classification, requests, held, timers>>
  /\ pc[i] = "extractTarball"
  /\ instances' = [instances EXCEPT ![i] =
       Step(Step(Step(instances[i],
                      "downloading_repository", "completed"),
                 "extracting_files", "completed"),
            "building_image", "in_progress")]
  /\ pc' = [pc EXCEPT ![i] = "buildImage"]
  /\ UNCHANGED <<currentInstance, stopCalls, nEvents, statusProbes, healthTimer,
                 tickProbes, alive, processes, monitoringIntervals,
                 healthChecks, metrics, errorHistory, reply>>

\* lines 185-189
ImageBuilt(i) ==
  /\ UNCHANGED <<monitoringVars, adapterVars, classification, requests, held, timers>>
  /\ pc[i] = "buildImage"
  /\ instances' = [instances EXCEPT ![i] =
       Step(Step(instances[i], "building_image", "completed"),
            "starting_container", "in_progress")]
  /\ pc' = [pc EXCEPT ![i] = "runContainer"]
  /\ UNCHANGED <<currentInstance, stopCalls, nEvents, statusProbes, healthTimer,
                 tickProbes, alive, processes, monitoringIntervals,
                 healthChecks, metrics, errorHistory, reply>>

\* the last step is left in progress
RunningStepLeftOpen(inst, containerId) ==
  [Step(Step([inst EXCEPT !.containerId = containerId],
             "starting_container", "completed"),
        "monitoring_container", "in_progress")
     EXCEPT !.status = "running"]

\* lines 190-205, as they leave the Instance
Running(inst, containerId) ==
  Step([Step(Step([inst EXCEPT !.containerId = containerId],
                  "starting_container", "completed"),
             "monitoring_container", "in_progress")
          EXCEPT !.status = "running"],
       "monitoring_container", "completed")

\* runContainer resolved (DockerService lines 209-214); lines 190-207
ContainerStarted(i) ==
  /\ UNCHANGED <<monitoringVars, adapterVars, classification, requests, held>>
  /\ pc[i] = "runContainer"
  /\ LET containerId == DockerContainerId(i)
         config      == RunnerConfig(EntityOf(instances[i].componentRef))
     IN  /\ instances' = [instances EXCEPT ![i] = Running(instances[i], containerId)]
         /\ processes' = processes \cup {i}
         /\ alive' = [alive EXCEPT ![containerId] = TRUE]
         /\ healthTimer' = [healthTimer EXCEPT ![i] = config.healthCheck]
         /\ monitoringIntervals' = startMonitoringIntervals(monitoringIntervals, containerId)
         /\ timers' = startMonitoringTimers(timers, containerId)
         /\ healthChecks' = startMonitoringHealth(healthChecks, containerId)
         /\ metrics' = MapSet(metrics, containerId, << >>)
  /\ pc' = [pc EXCEPT ![i] = "returned"]
  /\ reply' = Returned("start", i)
  /\ UNCHANGED <<currentInstance, stopCalls, nEvents, statusProbes, tickProbes,
                 errorHistory>>

\* lines 219-228, as they leave the Instance
Failed(inst, runnerError) ==
  Step([inst EXCEPT !.status = "error", !.error = runnerError.userMessage],
       inst.deploymentProgress.currentStep, "failed")

\* the awaited call rejected: the catch block, lines 208-238
StartFailed(i, message) ==
  /\ UNCHANGED <<monitoringVars, adapterVars, classification, requests, held, timers>>
  /\ pc[i] \in {Awaits[k] : k \in 1..Len(Awaits)}
  /\ message \in FailureMessages(pc[i], EntityOf(instances[i].componentRef))
  /\ pc' = [pc EXCEPT ![i] = "threw"]
  /\ LET context == ErrorContext("startComponent", i)
     IN  IF handleErrorOverflows(message, context)
         THEN /\ reply' = Threw("start", i, StackOverflowMessage)
              /\ UNCHANGED <<instances, errorHistory>>
         ELSE LET runnerError == handleErrorReturns(message, context)
              IN  /\ errorHistory' = addToHistory(errorHistory, runnerError)
                  /\ instances' = [instances EXCEPT ![i] = Failed(instances[i], runnerError)]
                  /\ reply' = Threw("start", i, runnerError.userMessage)
  /\ UNCHANGED <<currentInstance, stopCalls, nEvents, statusProbes, healthTimer,
                 tickProbes, alive, processes, monitoringIntervals,
                 healthChecks, metrics>>


(***************************************************************************)
(* RunnerServiceImpl.stopComponent.                                        *)
(***************************************************************************)
NotFoundMessage(id) == "Instance " \o ToString(id) \o " not found"

\* lines 257-258
Stopped(inst) == [inst EXCEPT !.status = "stopped", !.stoppedAt = TRUE]

\* line 247
Stopping(inst) == [inst EXCEPT !.status = "stopping"]

\* lines 241-255, and lines 257-264 when the Instance has no container
StopComponent(id) ==
  /\ UNCHANGED <<monitoringVars, adapterVars, classification, requests, held>>
  /\ IF id \notin Created
     THEN /\ reply' = Threw("stop", id, NotFoundMessage(id))
          /\ UNCHANGED <<instances, currentInstance, pc, stopCalls, nEvents,
                         statusProbes, healthTimer, tickProbes, alive, processes,
                         monitoringIntervals, healthChecks, metrics, errorHistory,
                         timers>>
     ELSE /\ nEvents < MaxEvents
          /\ nEvents' = nEvents + 1
          /\ IF instances[id].containerId # 0
             THEN /\ instances' = [instances EXCEPT ![id] = Stopping(instances[id])]
                  /\ monitoringIntervals' =
                       stopMonitoringIntervals(monitoringIntervals, instances[id].containerId)
                  /\ timers' = stopMonitoringTimers(timers, monitoringIntervals,
                                                    instances[id].containerId)
                  /\ healthChecks' =
                       stopMonitoringHealth(healthChecks, instances[id].containerId)
                  /\ stopCalls' = [stopCalls EXCEPT ![id] = @ + 1]
                  /\ UNCHANGED <<currentInstance, reply>>
             ELSE /\ instances' = [instances EXCEPT ![id] = Stopped(Stopping(instances[id]))]
                  /\ currentInstance' = ReleaseSlot(id)
                  /\ reply' = Returned("stop", id)
                  /\ UNCHANGED <<monitoringIntervals, healthChecks, stopCalls, timers>>
          /\ UNCHANGED <<pc, statusProbes, healthTimer, tickProbes, alive,
                         processes, metrics, errorHistory>>

\* stopContainer resolved (DockerService lines 231-237 or 249-253);
\* lines 257-264
StopContainerResolved(i) ==
  /\ UNCHANGED <<monitoringVars, adapterVars, classification, requests, held, timers>>
  /\ stopCalls[i] > 0
  /\ stopCalls' = [stopCalls EXCEPT ![i] = @ - 1]
  /\ alive' = [alive EXCEPT ![instances[i].containerId] = FALSE]
  /\ processes' = processes \ {i}
  /\ instances' = [instances EXCEPT ![i] = Stopped(instances[i])]
  /\ currentInstance' = ReleaseSlot(i)
  /\ reply' = Returned("stop", i)
  /\ UNCHANGED <<pc, nEvents, statusProbes, healthTimer, tickProbes,
                 monitoringIntervals, healthChecks, metrics, errorHistory>>

\* the status is left as it was
StopFailedKeepsStatus(inst, runnerError) ==
  [inst EXCEPT !.error = runnerError.userMessage]

\* lines 276-277
StopFailed(inst, runnerError) ==
  [inst EXCEPT !.status = "error", !.error = runnerError.userMessage]

\* stopContainer rejected (DockerService lines 239, 244, 255); the catch
\* block, lines 265-287
StopContainerRejected(i, message) ==
  /\ UNCHANGED <<monitoringVars, adapterVars, classification, requests, held, timers>>
  /\ stopCalls[i] > 0
  /\ message \in StopFailureMessages(instances[i].containerId)
  /\ stopCalls' = [stopCalls EXCEPT ![i] = @ - 1]
  /\ LET context == ErrorContext("stopComponent", i)
     IN  IF handleErrorOverflows(message, context)
         THEN /\ reply' = Threw("stop", i, StackOverflowMessage)
              /\ UNCHANGED <<instances, errorHistory>>
         ELSE LET runnerError == handleErrorReturns(message, context)
              IN  /\ errorHistory' = addToHistory(errorHistory, runnerError)
                  /\ instances' = [instances EXCEPT ![i] = StopFailed(instances[i], runnerError)]
                  /\ reply' = Threw("stop", i, runnerError.userMessage)
  /\ UNCHANGED <<currentInstance, pc, nEvents, statusProbes, healthTimer,
                 tickProbes, alive, processes, monitoringIntervals,
                 healthChecks, metrics>>

(***************************************************************************)
(* RunnerServiceImpl.getStatus and the timer of startHealthCheck.          *)
(***************************************************************************)
\* DockerService.isContainerRunning: docker ps lists the container
isContainerRunning(containerId) == alive[containerId]

\* lines 290-298, and line 308 when no probe is made
GetStatus(id) ==
  /\ UNCHANGED <<monitoringVars, adapterVars, classification, requests, held, timers>>
  /\ IF id \notin Created
     THEN /\ reply' = Threw("status", id, NotFoundMessage(id))
          /\ UNCHANGED <<instances, currentInstance, pc, stopCalls, nEvents,
                         statusProbes, healthTimer, tickProbes, alive, processes,
                         monitoringIntervals, healthChecks, metrics, errorHistory>>
     ELSE IF instances[id].containerId # 0 /\ instances[id].status = "running"
     THEN /\ nEvents < MaxEvents
          /\ nEvents' = nEvents + 1
          /\ statusProbes' = [statusProbes EXCEPT ![id] = @ + 1]
          /\ UNCHANGED <<instances, currentInstance, pc, stopCalls,
                         healthTimer, tickProbes, alive, processes,
                         monitoringIntervals, healthChecks, metrics, errorHistory,
                         reply>>
     ELSE /\ reply' = Returned("status", id)
          /\ UNCHANGED <<instances, currentInstance, pc, stopCalls, nEvents,
                         statusProbes, healthTimer, tickProbes, alive, processes,
                         monitoringIntervals, healthChecks, metrics, errorHistory>>

\* lines 298-308: the probe answered
GetStatusProbed(i) ==
  /\ UNCHANGED <<monitoringVars, adapterVars, classification, requests, held, timers>>
  /\ statusProbes[i] > 0
  /\ statusProbes' = [statusProbes EXCEPT ![i] = @ - 1]
  /\ IF ~isContainerRunning(instances[i].containerId)
     THEN /\ instances' = [instances EXCEPT ![i] = Stopped(instances[i])]
          /\ currentInstance' = ReleaseSlot(i)
     ELSE UNCHANGED <<instances, currentInstance>>
  /\ reply' = Returned("status", i)
  /\ UNCHANGED <<pc, stopCalls, nEvents, healthTimer, tickProbes, alive,
                 processes, monitoringIntervals, healthChecks, metrics,
                 errorHistory>>

\* lines 536-543: the interval fires
HealthCheckTick(i) ==
  /\ UNCHANGED <<monitoringVars, adapterVars, classification, requests, held, timers>>
  /\ healthTimer[i]
  /\ nEvents < MaxEvents
  /\ nEvents' = nEvents + 1
  /\ IF instances[i].status # "running" \/ instances[i].containerId = 0
     THEN /\ healthTimer' = [healthTimer EXCEPT ![i] = FALSE]
          /\ UNCHANGED tickProbes
     ELSE /\ tickProbes' = [tickProbes EXCEPT ![i] = @ + 1]
          /\ UNCHANGED healthTimer
  /\ UNCHANGED <<instances, currentInstance, pc, stopCalls,
                 statusProbes, alive, processes, monitoringIntervals,
                 healthChecks, metrics, errorHistory, reply>>

\* lines 543-551: the probe of a tick answered
HealthCheckProbed(i) ==
  /\ UNCHANGED <<monitoringVars, adapterVars, classification, requests, held, timers>>
  /\ tickProbes[i] > 0
  /\ tickProbes' = [tickProbes EXCEPT ![i] = @ - 1]
  /\ IF ~isContainerRunning(instances[i].containerId)
     THEN /\ instances' = [instances EXCEPT ![i] = Stopped(instances[i])]
          /\ currentInstance' = ReleaseSlot(i)
          /\ healthTimer' = [healthTimer EXCEPT ![i] = FALSE]
     ELSE UNCHANGED <<instances, currentInstance, healthTimer>>
  /\ UNCHANGED <<pc, stopCalls, nEvents, statusProbes, alive, processes,
                 monitoringIntervals, healthChecks, metrics, errorHistory,
                 reply>>

\* the container ends outside the orchestrator's control
ContainerExits(c) ==
  /\ UNCHANGED <<monitoringVars, adapterVars, classification, requests, held, timers>>
  /\ alive[c]
  /\ alive' = [alive EXCEPT ![c] = FALSE]
  /\ UNCHANGED <<instances, currentInstance, pc, stopCalls, nEvents,
                 statusProbes, healthTimer, tickProbes, processes,
                 monitoringIntervals, healthChecks, metrics, errorHistory,
                 reply>>

(***************************************************************************)
(* The orchestrator under any interleaving of its calls, of the promises   *)
(* they await and of the timers.                                           *)
(***************************************************************************)
Next ==
  \/ \E e \in Entities : StartComponent(e)
  \/ \E i \in Created : ConfigLoaded(i)
  \/ \E i \in Created : RepositoryDownloaded(i)
  \/ \E i \in Created : TarballExtracted(i)
  \/ \E i \in Created : ImageBuilt(i)
  \/ \E i \in Created : ContainerStarted(i)
  \/ \E i \in Created : \E a \in {Awaits[k] : k \in 1..Len(Awaits)} :
       \E message \in FailureMessages(a, EntityOf(instances[i].componentRef)) :
         StartFailed(i, message)
  \/ \E id \in InstanceIds : StopComponent(id)
  \/ \E i \in Created : StopContainerResolved(i)
  \/ \E i \in Created : \E message \in StopFailureMessages(instances[i].containerId) :
       StopContainerRejected(i, message)
  \/ \E id \in InstanceIds : GetStatus(id)
  \/ \E i \in Created : GetStatusProbed(i)
  \/ \E i \in Created : HealthCheckTick(i)
  \/ \E i \in Created : HealthCheckProbed(i)
  \/ \E c \in InstanceIds : ContainerExits(c)

Spec == Init /\ [][Next]_vars

\* what a start() call awaits settles: the promise resolves or rejects.  The
\* build and the run end by the exit of their process, by its error or by
\* their timeout (DockerService lines 113-147 and 194-222).
StartSettles(i) ==
  /\ i \in Created
  /\ \/ ConfigLoaded(i)
     \/ RepositoryDownloaded(i)
     \/ TarballExtracted(i)
     \/ ImageBuilt(i)
     \/ ContainerStarted(i)
     \/ \E a \in {Awaits[k] : k \in 1..Len(Awaits)} :
          \E message \in FailureMessages(a, EntityOf(instances[i].componentRef)) :
            StartFailed(i, message)

\* stopContainer settles: docker stop exits or fails, or the forced kill
\* after the grace period does (DockerService lines 227-259)
StopSettles(i) ==
  /\ i \in Created
  /\ \/ StopContainerResolved(i)
     \/ \E message \in StopFailureMessages(instances[i].containerId) :
          StopContainerRejected(i, message)

\* the orchestrator when every awaited promise settles
LiveSpec ==
  /\ Init
  /\ [][Next]_vars
  /\ \A i \in InstanceIds : WF_vars(StartSettles(i)) /\ WF_vars(StopSettles(i))


(***************************************************************************)
(* ContainerMonitoringService: the two loops startMonitoring sets for a    *)
(* container.  A HealthCheck is the time it was written and its success; a *)
(* metrics sample is the time it was written and the run of collectMetrics *)
(* whose statistics it holds.                                              *)
(***************************************************************************)
\* MonitoringConfig.maxHealthCheckHistory and maxMetricsHistory, which the
\* constructor takes (100 and 288 when it is given none)
maxHealthCheckHistory == 2
maxMetricsHistory == 2

\* runs of the two loops in one behaviour
MaxTicks == 3

RunningError == "Container is not running"

\* the messages isContainerRunning can reject with: spawn throws inside the
\* promise it builds
ProbeFailureMessages == {"spawn ENOMEM"}

HealthCheck(timestamp, success, error) ==
  [timestamp |-> timestamp, success |-> success, error |-> error]

\* lines 204-224: the probe answered
healthCheckAnswered(health, isRunning, timestamp) ==
  LET check  == HealthCheck(timestamp, isRunning,
                            IF isRunning THEN "" ELSE RunningError)
      pushed == Append(health.checks, check)
  IN  [status |-> IF isRunning THEN "healthy" ELSE "unhealthy",
       checks |-> IF Len(pushed) > maxHealthCheckHistory
                  THEN Tail(pushed) ELSE pushed]

\* lines 229-238: the probe threw
healthCheckThrew(health, message, timestamp) ==
  [status |-> "unhealthy",
   checks |-> Append(health.checks, HealthCheck(timestamp, FALSE, message))]

\* the history is never cut
addMetricsKeepsAll(containerMetrics, sample) == Append(containerMetrics, sample)

\* lines 273-282
addMetrics(containerMetrics, sample) ==
  LET pushed == Append(containerMetrics, sample)
  IN  IF Len(pushed) > maxMetricsHistory THEN Tail(pushed) ELSE pushed

\* a health interval set for container c fires: lines 105-109 and 192-201
PerformHealthCheck(c) ==
  /\ UNCHANGED <<adapterVars, classification, requests, held, timers>>
  /\ timers[<<c, "health">>] > 0
  /\ now < MaxTicks
  /\ now' = now + 1
  /\ healthProbes' = [healthProbes EXCEPT ![c] =
                        IF c \in DOMAIN healthChecks THEN @ + 1 ELSE @]
  /\ UNCHANGED <<instances, currentInstance, pc, stopCalls, nEvents,
                 statusProbes, healthTimer, tickProbes, alive, processes,
                 monitoringIntervals, healthChecks, metrics, errorHistory,
                 reply, metricsProbes>>

\* isContainerRunning of a health check resolved: lines 201-227.  The run
\* writes to the object it read from the map at line 197; when the map no
\* longer holds it, nothing the map holds changes.
HealthCheckAnswered(c) ==
  /\ UNCHANGED <<adapterVars, classification, requests, held, timers>>
  /\ healthProbes[c] > 0
  /\ healthProbes' = [healthProbes EXCEPT ![c] = @ - 1]
  /\ now' = now + 1
  /\ healthChecks' = IF c \in DOMAIN healthChecks
                     THEN [healthChecks EXCEPT ![c] =
                             healthCheckAnswered(@, isContainerRunning(c), now')]
                     ELSE healthChecks
  /\ UNCHANGED <<instances, currentInstance, pc, stopCalls, nEvents,
                 statusProbes, healthTimer, tickProbes, alive, processes,
                 monitoringIntervals, metrics, errorHistory, reply,
                 metricsProbes>>

\* isContainerRunning of a health check rejected: lines 229-241
HealthCheckThrew(c, message) ==
  /\ UNCHANGED <<adapterVars, classification, requests, held, timers>>
  /\ healthProbes[c] > 0
  /\ healthProbes' = [healthProbes EXCEPT ![c] = @ - 1]
  /\ now' = now + 1
  /\ healthChecks' = IF c \in DOMAIN healthChecks
                     THEN [healthChecks EXCEPT ![c] =
                             healthCheckThrew(@, message, now')]
                     ELSE healthChecks
  /\ UNCHANGED <<instances, currentInstance, pc, stopCalls, nEvents,
                 statusProbes, healthTimer, tickProbes, alive, processes,
                 monitoringIntervals, metrics, errorHistory, reply,
                 metricsProbes>>

\* the metrics interval of container c fires: lines 112-116 and 247-249;
\* the run is named by the time it began
CollectMetrics(c) ==
  /\ UNCHANGED <<adapterVars, classification, requests, held, timers>>
  /\ timers[<<c, "metrics">>] > 0
  /\ now < MaxTicks
  /\ now' = now + 1
  /\ metricsProbes' = [metricsProbes EXCEPT ![c] = @ \cup {now'}]
  /\ UNCHANGED <<instances, currentInstance, pc, stopCalls, nEvents,
                 statusProbes, healthTimer, tickProbes, alive, processes,
                 monitoringIntervals, healthChecks, metrics, errorHistory,
                 reply, healthProbes>>

\* getContainerStats of run p answered with statistics (lines 252-285) or
\* with null (line 250; DockerService lines 315-322)
MetricsCollected(c, p, stats) ==
  /\ UNCHANGED <<adapterVars, classification, requests, held, timers>>
  /\ p \in metricsProbes[c]
  /\ metricsProbes' = [metricsProbes EXCEPT ![c] = @ \ {p}]
  /\ now' = now + 1
  /\ IF stats
     THEN metrics' = MapSet(metrics, c,
                       addMetrics(IF c \in DOMAIN metrics THEN metrics[c] ELSE << >>,
                                  [timestamp |-> now', probe |-> p]))
     ELSE UNCHANGED metrics
  /\ UNCHANGED <<instances, currentInstance, pc, stopCalls, nEvents,
                 statusProbes, healthTimer, tickProbes, alive, processes,
                 monitoringIntervals, healthChecks, errorHistory, reply,
                 healthProbes>>

\* The engine after one start() has succeeded: what ContainerStarted leaves
\* of the first Instance of Spec.
MonitoringInit ==
  /\ instances = << Running(Step(Step(Step(Step(Step(Step(Step(
                      [NewInstance(1, "web") EXCEPT !.ports = RunnerConfig("web").ports],
                      "downloading_repository", "in_progress"),
                      "extracting_files", "in_progress"),
                      "downloading_repository", "completed"),
                      "extracting_files", "completed"),
                      "building_image", "in_progress"),
                      "building_image", "completed"),
                      "starting_container", "in_progress"),
                    DockerContainerId(1)) >>
  /\ currentInstance = 1
  /\ pc = [i \in InstanceIds |-> IF i = 1 THEN "returned" ELSE "idle"]
  /\ stopCalls = [i \in InstanceIds |-> 0]
  /\ nEvents = 1
  /\ statusProbes = [i \in InstanceIds |-> 0]
  /\ healthTimer = [i \in InstanceIds |-> i = 1]
  /\ tickProbes = [i \in InstanceIds |-> 0]
  /\ alive = [i \in InstanceIds |-> i = 1]
  /\ processes = {1}
  /\ monitoringIntervals = startMonitoringIntervals({}, DockerContainerId(1))
  /\ healthChecks = startMonitoringHealth(<< >>, DockerContainerId(1))
  /\ metrics = MapSet(<< >>, DockerContainerId(1), << >>)
  /\ errorHistory = << >>
  /\ reply = Returned("start", 1)
  /\ healthProbes = [c \in InstanceIds |-> 0]
  /\ metricsProbes = [c \in InstanceIds |-> {}]
  /\ now = 0
  /\ buildCache = << >>
  /\ dockerCalls = {}
  /\ spawned = {}
  /\ occupied = {}
  /\ dockerfiles = {}
  /\ dockerReply = [op |-> "none", instanceId |-> 0, outcome |-> "none", value |-> ""]
  /\ classification = NoClassification
  /\ requests = {}
  /\ held = NoRead
  /\ timers = startMonitoringTimers(NoTimers, DockerContainerId(1))

MonitoringNext ==
  \/ \E c \in InstanceIds : PerformHealthCheck(c)
  \/ \E c \in InstanceIds : HealthCheckAnswered(c)
  \/ \E c \in InstanceIds : \E message \in ProbeFailureMessages :
       HealthCheckThrew(c, message)
  \/ \E c \in InstanceIds : CollectMetrics(c)
  \/ \E c \in InstanceIds : \E p \in metricsProbes[c] : \E stats \in BOOLEAN :
       MetricsCollected(c, p, stats)
  \/ \E id \in Created : StopComponent(id)
  \/ \E i \in Created : StopContainerResolved(i)
  \/ \E i \in Created : \E message \in StopFailureMessages(instances[i].containerId) :
       StopContainerRejected(i, message)
  \/ \E c \in InstanceIds : ContainerExits(c)

MonitoringSpec == MonitoringInit /\ [][MonitoringNext]_vars

\* ContainerMonitoringService.cleanup, lines 176-187: every interval is
\* cleared and the three maps are emptied; runs of performHealthCheck and
\* collectMetrics that await their probe are left as they are
MonitoringCleanup ==
  /\ UNCHANGED <<adapterVars, classification, requests, held>>
  /\ timers' = [key \in DOMAIN timers |->
                  IF key \in monitoringIntervals THEN timers[key] - 1 ELSE timers[key]]
  /\ monitoringIntervals # {} \/ healthChecks # << >> \/ metrics # << >>
  /\ monitoringIntervals' = {}
  /\ healthChecks' = << >>
  /\ metrics' = << >>
  /\ UNCHANGED <<instances, currentInstance, pc, stopCalls, nEvents,
                 statusProbes, healthTimer, tickProbes, alive, processes,
                 errorHistory, reply, healthProbes, metricsProbes, now>>

MonitoringCleanupNext == MonitoringNext \/ MonitoringCleanup

MonitoringCleanupSpec == MonitoringInit /\ [][MonitoringCleanupNext]_vars

(***************************************************************************)
(* ErrorHandlingService.handleError on its own: the history it keeps, from *)
(* histories of earlier calls that are empty, one short of full, and full. *)
(***************************************************************************)
\* the errors recorded in one behaviour are raised by these
HistoryMessages ==
  [startComponent |-> FailureMessages("runContainer", "web"),
   stopComponent  |-> StopFailureMessages(1)]

\* n earlier failures, each of an Instance of its own
EarlierErrors(n) ==
  [k \in 1..n |->
     handleErrorReturns("Ports already in use: 3000",
                        ErrorContext("startComponent", k))]

\* the Instance the next failure belongs to
NextInstanceId ==
  IF Len(errorHistory) = 0 THEN 1
  ELSE errorHistory[Len(errorHistory)].context.instanceId + 1

HistoryInit ==
  /\ errorHistory \in {EarlierErrors(0), EarlierErrors(maxHistorySize - 1),
                       EarlierErrors(maxHistorySize)}
  /\ instances = << >>
  /\ currentInstance = 0
  /\ pc = [i \in InstanceIds |-> "idle"]
  /\ stopCalls = [i \in InstanceIds |-> 0]
  /\ nEvents = 0
  /\ statusProbes = [i \in InstanceIds |-> 0]
  /\ healthTimer = [i \in InstanceIds |-> FALSE]
  /\ tickProbes = [i \in InstanceIds |-> 0]
  /\ alive = [i \in InstanceIds |-> FALSE]
  /\ processes = {}
  /\ monitoringIntervals = {}
  /\ healthChecks = << >>
  /\ metrics = << >>
  /\ reply = [op |-> "none", id |-> 0, outcome |-> "none", message |-> ""]
  /\ healthProbes = [c \in InstanceIds |-> 0]
  /\ metricsProbes = [c \in InstanceIds |-> {}]
  /\ now = 0
  /\ buildCache = << >>
  /\ dockerCalls = {}
  /\ spawned = {}
  /\ occupied = {}
  /\ dockerfiles = {}
  /\ dockerReply = [op |-> "none", instanceId |-> 0, outcome |-> "none", value |-> ""]
  /\ classification = NoClassification
  /\ requests = {}
  /\ held = NoRead
  /\ timers = NoTimers

\* handleError, lines 285-295
HandleError(message, operation) ==
  /\ UNCHANGED <<adapterVars, classification, requests, held, timers>>
  /\ nEvents < MaxEvents
  /\ nEvents' = nEvents + 1
  /\ LET context == ErrorContext(operation, NextInstanceId)
     IN  /\ ~handleErrorOverflows(message, context)
         /\ errorHistory' = addToHistory(errorHistory,
                                         handleErrorReturns(message, context))
  /\ UNCHANGED <<instances, currentInstance, pc, stopCalls, statusProbes,
                 healthTimer, tickProbes, alive, processes, monitoringIntervals,
                 healthChecks, metrics, reply, healthProbes, metricsProbes, now>>

HistoryNext ==
  \E operation \in Operations : \E message \in HistoryMessages[operation] :
    HandleError(message, operation)

HistorySpec == HistoryInit /\ [][HistoryNext]_vars

(***************************************************************************)
(* The engine called on its own: startMonitoring and stopMonitoring in any *)
(* order, for any container and any number of times.                       *)
(***************************************************************************)
\* lines 83-121.  A health check awaiting its probe holds the health object
\* it read; the calls taken here are those made while no health check of
\* the container awaits its probe.
StartMonitoring(containerId) ==
  /\ nEvents < MaxEvents
  /\ nEvents' = nEvents + 1
  /\ healthProbes[containerId] = 0
  /\ monitoringIntervals' = startMonitoringIntervals(monitoringIntervals, containerId)
  /\ timers' = startMonitoringTimers(timers, containerId)
  /\ healthChecks' = startMonitoringHealth(healthChecks, containerId)
  /\ metrics' = MapSet(metrics, containerId, << >>)
  /\ UNCHANGED <<instances, currentInstance, pc, stopCalls, statusProbes,
                 healthTimer, tickProbes, alive, processes, errorHistory, reply,
                 monitoringVars, adapterVars, classification, requests, held>>

\* lines 126-149
StopMonitoring(containerId) ==
  /\ nEvents < MaxEvents
  /\ nEvents' = nEvents + 1
  /\ monitoringIntervals' = stopMonitoringIntervals(monitoringIntervals, containerId)
  /\ timers' = stopMonitoringTimers(timers, monitoringIntervals, containerId)
  /\ healthChecks' = stopMonitoringHealth(healthChecks, containerId)
  /\ UNCHANGED <<instances, currentInstance, pc, stopCalls, statusProbes,
                 healthTimer, tickProbes, alive, processes, metrics, errorHistory,
                 reply, monitoringVars, adapterVars, classification, requests,
                 held>>

LoopsNext ==
  \/ \E c \in InstanceIds : StartMonitoring(c)
  \/ \E c \in InstanceIds : StopMonitoring(c)
  \/ \E c \in InstanceIds : PerformHealthCheck(c)
  \/ \E c \in InstanceIds : HealthCheckAnswered(c)
  \/ \E c \in InstanceIds : CollectMetrics(c)
  \/ \E c \in InstanceIds : \E p \in metricsProbes[c] : \E stats \in BOOLEAN :
       MetricsCollected(c, p, stats)

LoopsSpec == Init /\ [][LoopsNext]_vars

(***************************************************************************)
(* Readers of the bounded histories.  `held` is what the last read handed  *)
(* to its caller: `seen` is the value at the time of the read, `live`      *)
(* tells that the caller was handed the service's own array or object      *)
(* rather than a copy of it.                                               *)
(***************************************************************************)
\* the limits a reader passes; 0 stands for none
Limits == {0, 1}

\* Array.prototype.slice(-limit)
sliceLast(list, limit) ==
  IF Len(list) > limit THEN SubSeq(list, Len(list) - limit + 1, Len(list)) ELSE list

\* ErrorHandlingService.getErrorHistory, lines 491-493
GetErrorHistory(limit) ==
  /\ held = NoRead
  /\ held' = [source |-> "errors", containerId |-> 0, live |-> limit = 0,
              seen |-> IF limit = 0 THEN errorHistory
                       ELSE sliceLast(errorHistory, limit)]
  /\ UNCHANGED <<instances, currentInstance, pc, stopCalls, nEvents, statusProbes,
                 healthTimer, tickProbes, alive, processes, monitoringIntervals,
                 healthChecks, metrics, errorHistory, reply, monitoringVars,
                 adapterVars, classification, requests, timers>>

\* ContainerMonitoringService.getContainerMetrics, lines 161-164
GetContainerMetrics(containerId, limit) ==
  /\ held = NoRead
  /\ LET allMetrics == IF containerId \in DOMAIN metrics
                       THEN metrics[containerId] ELSE << >>
     IN  held' = [source |-> "metrics", containerId |-> containerId,
                  live |-> limit = 0 /\ containerId \in DOMAIN metrics,
                  seen |-> IF limit = 0 THEN allMetrics
                           ELSE sliceLast(allMetrics, limit)]
  /\ UNCHANGED <<instances, currentInstance, pc, stopCalls, nEvents, statusProbes,
                 healthTimer, tickProbes, alive, processes, monitoringIntervals,
                 healthChecks, metrics, errorHistory, reply, monitoringVars,
                 adapterVars, classification, requests, timers>>

\* ContainerMonitoringService.getContainerHealth, lines 154-156; null is
\* the empty record
GetContainerHealth(containerId) ==
  /\ held = NoRead
  /\ held' = [source |-> "health", containerId |-> containerId,
              live |-> containerId \in DOMAIN healthChecks,
              seen |-> IF containerId \in DOMAIN healthChecks
                       THEN healthChecks[containerId]
                       ELSE [status |-> "null", checks |-> << >>]]
  /\ UNCHANGED <<instances, currentInstance, pc, stopCalls, nEvents, statusProbes,
                 healthTimer, tickProbes, alive, processes, monitoringIntervals,
                 healthChecks, metrics, errorHistory, reply, monitoringVars,
                 adapterVars, classification, requests, timers>>

\* what the caller finds in the value it holds: the service's own array or
\* object as it is now, or the copy it was handed
Observed ==
  IF ~held.live THEN held.seen
  ELSE CASE held.source = "errors"  -> errorHistory
         [] held.source = "metrics" ->
              IF held.containerId \in DOMAIN metrics
              THEN metrics[held.containerId] ELSE held.seen
         [] held.source = "health"  ->
              IF held.containerId \in DOMAIN healthChecks
              THEN healthChecks[held.containerId] ELSE held.seen

\* the engine with one monitored container, failures being recorded, and one
\* reader
ReadNext ==
  \/ \E c \in InstanceIds : PerformHealthCheck(c)
  \/ \E c \in InstanceIds : HealthCheckAnswered(c)
  \/ \E c \in InstanceIds : CollectMetrics(c)
  \/ \E c \in InstanceIds : \E p \in metricsProbes[c] : MetricsCollected(c, p, TRUE)
  \/ \E message \in StopFailureMessages(1) : HandleError(message, "stopComponent")
  \/ \E limit \in Limits : GetErrorHistory(limit)
  \/ \E limit \in Limits : GetContainerMetrics(DockerContainerId(1), limit)
  \/ GetContainerHealth(DockerContainerId(1))

ReadSpec == MonitoringInit /\ [][ReadNext]_vars

(***************************************************************************)
(* The two implementations of a step update, given the same updates:       *)
(* RunnerServiceImpl.updateDeploymentProgress on the progress of an        *)
(* Instance, and DeploymentProgressHelper.updateStep on the progress value *)
(* `held` by a client.                                                     *)
(***************************************************************************)
\* updates of one DeploymentProgress in one behaviour
MaxUpdates == 6

StepStatuses == {"pending", "in_progress", "completed", "failed"}

\* completedAt is written again by every update that leaves isComplete
updateStepRestamps(progress, stepType, status) ==
  LET stepIndex      == StepIndex(stepType)
      updatedSteps   == IF stepIndex = 0 THEN progress.steps
                        ELSE [progress.steps EXCEPT ![stepIndex] = status]
      hasError       == \E k \in 1..Len(updatedSteps) : updatedSteps[k] = "failed"
      isComplete     == (\A k \in 1..Len(updatedSteps) : updatedSteps[k] = "completed")
                          \/ hasError
  IN  [progress EXCEPT !.steps = updatedSteps, !.hasError = hasError,
                       !.isComplete = isComplete,
                       !.updates = @ + 1,
                       !.completedAt = IF isComplete THEN progress.updates + 1 ELSE @]

\* deployment.ts lines 94-159
updateStep(progress, stepType, status) ==
  LET stepIndex      == StepIndex(stepType)
      updatedSteps   == IF stepIndex = 0 THEN progress.steps
                        ELSE [progress.steps EXCEPT ![stepIndex] = status]
      totalSteps     == Len(updatedSteps)
      completedSteps == Cardinality({k \in 1..totalSteps : updatedSteps[k] = "completed"})
      hasError       == \E k \in 1..totalSteps : updatedSteps[k] = "failed"
      isComplete     == completedSteps = totalSteps \/ hasError
      laterPending   == {k \in 1..totalSteps : k > stepIndex /\ updatedSteps[k] = "pending"}
      stamp          == progress.updates + 1
  IN  [currentStep     |->
         IF status = "completed" /\ laterPending # {}
         THEN StepTypes[CHOOSE k \in laterPending : \A m \in laterPending : k <= m]
         ELSE progress.currentStep,
       steps           |-> updatedSteps,
       overallProgress |-> RoundDiv(completedSteps * 100, totalSteps),
       isComplete      |-> isComplete,
       hasError        |-> hasError,
       completedAt     |->
         IF isComplete /\ progress.completedAt = 0 THEN stamp
         ELSE progress.completedAt,
       updates         |-> stamp]

ProgressInit ==
  /\ instances = << NewInstance(1, "web") >>
  /\ currentInstance = 1
  /\ pc = [i \in InstanceIds |-> IF i = 1 THEN "getRunnerConfig" ELSE "idle"]
  /\ stopCalls = [i \in InstanceIds |-> 0]
  /\ nEvents = 1
  /\ statusProbes = [i \in InstanceIds |-> 0]
  /\ healthTimer = [i \in InstanceIds |-> FALSE]
  /\ tickProbes = [i \in InstanceIds |-> 0]
  /\ alive = [i \in InstanceIds |-> FALSE]
  /\ processes = {}
  /\ monitoringIntervals = {}
  /\ healthChecks = << >>
  /\ metrics = << >>
  /\ errorHistory = << >>
  /\ reply = [op |-> "none", id |-> 0, outcome |-> "none", message |-> ""]
  /\ healthProbes = [c \in InstanceIds |-> 0]
  /\ metricsProbes = [c \in InstanceIds |-> {}]
  /\ now = 0
  /\ buildCache = << >>
  /\ dockerCalls = {}
  /\ spawned = {}
  /\ occupied = {}
  /\ dockerfiles = {}
  /\ dockerReply = [op |-> "none", instanceId |-> 0, outcome |-> "none", value |-> ""]
  /\ classification = NoClassification
  /\ requests = {}
  /\ held = [source |-> "progress", containerId |-> 0, live |-> FALSE,
             seen |-> createInitialDeploymentProgress]
  /\ timers = NoTimers

\* one step update, of any step to any status
UpdateStep(stepType, status) ==
  /\ instances[1].deploymentProgress.updates < MaxUpdates
  /\ instances' = [instances EXCEPT ![1] = Step(@, stepType, status)]
  /\ held' = [held EXCEPT !.seen = updateStep(@, stepType, status)]
  /\ UNCHANGED <<currentInstance, pc, stopCalls, nEvents, statusProbes,
                 healthTimer, tickProbes, alive, processes, monitoringIntervals,
                 healthChecks, metrics, errorHistory, reply, monitoringVars,
                 adapterVars, classification, requests, timers>>

ProgressNext ==
  \E k \in 1..Len(StepTypes) : \E status \in StepStatuses :
    UpdateStep(StepTypes[k], status)

ProgressSpec == ProgressInit /\ [][ProgressNext]_vars

(***************************************************************************)
(* DockerService called on its own: buildImage with its cache, and         *)
(* runContainer with its port check.  A call in flight is a record of      *)
(* dockerCalls; `settled` tells that its promise has been resolved or      *)
(* rejected, `timer` that its build timeout is still set.                  *)
(***************************************************************************)
RepoPaths == {"/tmp/runner-a", "/tmp/runner-b"}

Dockerfiles == {"./Dockerfile"}

PortLists == {<<3000>>, <<3000, 8080>>}

HostPorts == {3000, 8080}

\* the instance ids the callers pass
CallerIds == {1, 2}

ImageName(instanceId) == "runner-" \o ToString(instanceId)

CacheKey(repoPath, dockerfile) == repoPath \o "-" \o dockerfile

\* n tells the calls apart: the n-th call made
DockerCall(n, op, instanceId, repoPath, dockerfile, ports, stage) ==
  [n |-> n, op |-> op, instanceId |-> instanceId, repoPath |-> repoPath,
   dockerfile |-> dockerfile, ports |-> ports, stage |-> stage,
   settled |-> FALSE, timer |-> FALSE]

DockerReturned(call, value) ==
  [op |-> call.op, instanceId |-> call.instanceId, outcome |-> "returned",
   value |-> value]

DockerThrew(call, message) ==
  [op |-> call.op, instanceId |-> call.instanceId, outcome |-> "threw",
   value |-> message]

\* a promise settles once: a later resolve or reject is ignored
Settle(call, outcome) == IF call.settled THEN dockerReply ELSE outcome

\* Array.prototype.join(', ') of the ports
RECURSIVE JoinPorts(_)
JoinPorts(ports) ==
  IF Len(ports) = 0 THEN ""
  ELSE IF Len(ports) = 1 THEN ToString(ports[1])
  ELSE ToString(ports[1]) \o ", " \o JoinPorts(Tail(ports))

\* a check that looks at the first requested port only
unavailablePortsFirstOnly(ports) ==
  IF Len(ports) = 0 THEN << >>
  ELSE IF ports[1] \in occupied THEN <<ports[1]>> ELSE << >>

\* checkPortAvailability, lines 367-368: the requested ports that are taken
RECURSIVE unavailablePorts(_)
unavailablePorts(ports) ==
  IF Len(ports) = 0 THEN << >>
  ELSE IF ports[1] \in occupied
       THEN <<ports[1]>> \o unavailablePorts(Tail(ports))
       ELSE unavailablePorts(Tail(ports))

\* line 76: the cache holds the key
Cached(cacheKey) == cacheKey \in DOMAIN buildCache

\* buildImage is called: lines 57-69
BuildImage(repoPath, dockerfile, instanceId) ==
  /\ nEvents < MaxEvents
  /\ nEvents' = nEvents + 1
  /\ dockerCalls' = dockerCalls \cup
       {DockerCall(nEvents', "buildImage", instanceId, repoPath, dockerfile, << >>, "access")}
  /\ UNCHANGED <<instances, currentInstance, pc, stopCalls, statusProbes,
                 healthTimer, tickProbes, alive, processes, monitoringIntervals,
                 healthChecks, metrics, errorHistory, reply, monitoringVars, classification, requests, held, timers,
                 buildCache, spawned, occupied, dockerfiles, dockerReply>>

\* fs.access answered: lines 68-96 and 140-143
DockerfileChecked(call) ==
  /\ call \in dockerCalls
  /\ call.op = "buildImage" /\ call.stage = "access"
  /\ LET cacheKey == CacheKey(call.repoPath, call.dockerfile)
     IN  IF <<call.repoPath, call.dockerfile>> \notin dockerfiles
         THEN /\ dockerReply' = DockerThrew(call, "Dockerfile not found at: " \o call.dockerfile)
              /\ dockerCalls' = dockerCalls \ {call}
              /\ UNCHANGED spawned
         ELSE IF Cached(cacheKey)
         THEN /\ dockerReply' = DockerReturned(call, buildCache[cacheKey])
              /\ dockerCalls' = dockerCalls \ {call}
              /\ UNCHANGED spawned
         ELSE /\ spawned' = spawned \cup {<<"build", call.instanceId, call.repoPath>>}
              /\ dockerCalls' = (dockerCalls \ {call})
                   \cup {[call EXCEPT !.stage = "building", !.timer = TRUE]}
              /\ UNCHANGED dockerReply
  /\ UNCHANGED <<instances, currentInstance, pc, stopCalls, nEvents, statusProbes,
                 healthTimer, tickProbes, alive, processes, monitoringIntervals,
                 healthChecks, metrics, errorHistory, reply, monitoringVars, classification, requests, held, timers,
                 buildCache, occupied, dockerfiles>>

\* the build process closed: lines 113-132 and 145-147
BuildClosed(call, code) ==
  /\ call \in dockerCalls
  /\ call.op = "buildImage" /\ call.stage = "building"
  /\ dockerCalls' = dockerCalls \ {call}
  /\ IF code = 0
     THEN /\ buildCache' = MapSet(buildCache, CacheKey(call.repoPath, call.dockerfile),
                                  ImageName(call.instanceId))
          /\ dockerReply' = Settle(call, DockerReturned(call, ImageName(call.instanceId)))
     ELSE /\ dockerReply' = Settle(call, DockerThrew(call, "Docker build failed: The command '/bin/sh -c npm ci' returned a non-zero code: 1"))
          /\ UNCHANGED buildCache
  /\ UNCHANGED <<instances, currentInstance, pc, stopCalls, nEvents, statusProbes,
                 healthTimer, tickProbes, alive, processes, monitoringIntervals,
                 healthChecks, metrics, errorHistory, reply, monitoringVars, classification, requests, held, timers,
                 spawned, occupied, dockerfiles>>

\* the build timeout fired: lines 140-143
BuildTimedOut(call) ==
  /\ call \in dockerCalls
  /\ call.op = "buildImage" /\ call.stage = "building" /\ call.timer
  /\ dockerCalls' = (dockerCalls \ {call})
       \cup {[call EXCEPT !.timer = FALSE, !.settled = TRUE]}
  /\ dockerReply' = Settle(call, DockerThrew(call, "Docker build timed out after 600 seconds"))
  /\ UNCHANGED <<instances, currentInstance, pc, stopCalls, nEvents, statusProbes,
                 healthTimer, tickProbes, alive, processes, monitoringIntervals,
                 healthChecks, metrics, errorHistory, reply, monitoringVars, classification, requests, held, timers,
                 buildCache, spawned, occupied, dockerfiles>>

\* runContainer is called: lines 151-161
RunContainer(ports, instanceId) ==
  /\ nEvents < MaxEvents
  /\ nEvents' = nEvents + 1
  /\ dockerCalls' = dockerCalls \cup
       {DockerCall(nEvents', "runContainer", instanceId, "", "", ports, "ports")}
  /\ UNCHANGED <<instances, currentInstance, pc, stopCalls, statusProbes,
                 healthTimer, tickProbes, alive, processes, monitoringIntervals,
                 healthChecks, metrics, errorHistory, reply, monitoringVars, classification, requests, held, timers,
                 buildCache, spawned, occupied, dockerfiles, dockerReply>>

\* checkPortsAvailable answered: lines 161-198 and 366-374
PortsChecked(call) ==
  /\ call \in dockerCalls
  /\ call.op = "runContainer" /\ call.stage = "ports"
  /\ IF Len(unavailablePorts(call.ports)) > 0
     THEN /\ dockerReply' = DockerThrew(call, "Ports already in use: "
                                              \o JoinPorts(unavailablePorts(call.ports)))
          /\ dockerCalls' = dockerCalls \ {call}
          /\ UNCHANGED spawned
     ELSE /\ spawned' = spawned \cup {<<"run", call.instanceId, "">>}
          /\ dockerCalls' = (dockerCalls \ {call})
               \cup {[call EXCEPT !.stage = "running", !.timer = TRUE]}
          /\ UNCHANGED dockerReply
  /\ UNCHANGED <<instances, currentInstance, pc, stopCalls, nEvents, statusProbes,
                 healthTimer, tickProbes, alive, processes, monitoringIntervals,
                 healthChecks, metrics, errorHistory, reply, monitoringVars, classification, requests, held, timers,
                 buildCache, occupied, dockerfiles>>

\* the run process closed: lines 209-218
RunClosed(call, code) ==
  /\ call \in dockerCalls
  /\ call.op = "runContainer" /\ call.stage = "running"
  /\ dockerCalls' = dockerCalls \ {call}
  /\ IF code = 0
     THEN /\ processes' = processes \cup {call.instanceId}
          /\ dockerReply' = Settle(call, DockerReturned(call,
                                ToString(DockerContainerId(call.instanceId))))
     ELSE /\ dockerReply' = Settle(call, DockerThrew(call,
                                "Failed to start container: docker: Error response from daemon: Conflict."))
          /\ UNCHANGED processes
  /\ UNCHANGED <<instances, currentInstance, pc, stopCalls, nEvents, statusProbes,
                 healthTimer, tickProbes, alive, monitoringIntervals,
                 healthChecks, metrics, errorHistory, reply, monitoringVars, classification, requests, held, timers,
                 buildCache, spawned, occupied, dockerfiles>>

\* cleanup() is called: lines 327-340
DockerCleanup ==
  /\ nEvents < MaxEvents
  /\ nEvents' = nEvents + 1
  /\ processes' = {}
  /\ dockerCalls' = dockerCalls \cup
       {DockerCall(nEvents', "cleanup", 0, "", "", << >>, "cleaning")}
  /\ UNCHANGED <<instances, currentInstance, pc, stopCalls, statusProbes,
                 healthTimer, tickProbes, alive, monitoringIntervals,
                 healthChecks, metrics, errorHistory, reply, monitoringVars, classification, requests, held, timers,
                 buildCache, spawned, occupied, dockerfiles, dockerReply>>

\* cleanup() after its await: lines 342-352
DockerCleanedUp(call) ==
  /\ call \in dockerCalls
  /\ call.op = "cleanup"
  /\ dockerCalls' = dockerCalls \ {call}
  /\ buildCache' = << >>
  /\ dockerReply' = DockerReturned(call, "")
  /\ UNCHANGED <<instances, currentInstance, pc, stopCalls, nEvents, statusProbes,
                 healthTimer, tickProbes, alive, processes, monitoringIntervals,
                 healthChecks, metrics, errorHistory, reply, monitoringVars, classification, requests, held, timers,
                 spawned, occupied, dockerfiles>>

\* a port of the host is taken or freed by another program
PortChanges(port) ==
  /\ occupied' = IF port \in occupied THEN occupied \ {port} ELSE occupied \cup {port}
  /\ UNCHANGED <<instances, currentInstance, pc, stopCalls, nEvents, statusProbes,
                 healthTimer, tickProbes, alive, processes, monitoringIntervals,
                 healthChecks, metrics, errorHistory, reply, monitoringVars, classification, requests, held, timers,
                 buildCache, dockerCalls, spawned, dockerfiles, dockerReply>>

\* a Dockerfile is removed from a source tree
DockerfileRemoved(file) ==
  /\ file \in dockerfiles
  /\ dockerfiles' = dockerfiles \ {file}
  /\ UNCHANGED <<instances, currentInstance, pc, stopCalls, nEvents, statusProbes,
                 healthTimer, tickProbes, alive, processes, monitoringIntervals,
                 healthChecks, metrics, errorHistory, reply, monitoringVars, classification, requests, held, timers,
                 buildCache, dockerCalls, spawned, occupied, dockerReply>>

\* every service before any call
AdapterIdle ==
  /\ requests = {}
  /\ held = NoRead
  /\ timers = NoTimers
  /\ buildCache = << >>
  /\ dockerCalls = {}
  /\ spawned = {}
  /\ dockerReply = [op |-> "none", instanceId |-> 0, outcome |-> "none", value |-> ""]
  /\ instances = << >>
  /\ currentInstance = 0
  /\ pc = [i \in InstanceIds |-> "idle"]
  /\ stopCalls = [i \in InstanceIds |-> 0]
  /\ nEvents = 0
  /\ statusProbes = [i \in InstanceIds |-> 0]
  /\ healthTimer = [i \in InstanceIds |-> FALSE]
  /\ tickProbes = [i \in InstanceIds |-> 0]
  /\ alive = [i \in InstanceIds |-> FALSE]
  /\ processes = {}
  /\ monitoringIntervals = {}
  /\ healthChecks = << >>
  /\ metrics = << >>
  /\ errorHistory = << >>
  /\ reply = [op |-> "none", id |-> 0, outcome |-> "none", message |-> ""]
  /\ healthProbes = [c \in InstanceIds |-> 0]
  /\ metricsProbes = [c \in InstanceIds |-> {}]
  /\ now = 0

\* buildImage and cleanup, over source trees that hold any of the Dockerfiles
BuildInit ==
  /\ AdapterIdle
  /\ dockerfiles \in SUBSET (RepoPaths \X Dockerfiles)
  /\ occupied = {}
  /\ classification = NoClassification

BuildNext ==
  \/ \E repoPath \in RepoPaths : \E dockerfile \in Dockerfiles : \E instanceId \in CallerIds :
       BuildImage(repoPath, dockerfile, instanceId)
  \/ \E call \in dockerCalls : DockerfileChecked(call)
  \/ \E call \in dockerCalls : \E code \in {0, 1} : BuildClosed(call, code)
  \/ \E call \in dockerCalls : BuildTimedOut(call)
  \/ DockerCleanup
  \/ \E call \in dockerCalls : DockerCleanedUp(call)
  \/ \E file \in dockerfiles : DockerfileRemoved(file)

BuildSpec == BuildInit /\ [][BuildNext]_vars

\* runContainer, on a host where any of the ports are in use
RunInit ==
  /\ AdapterIdle
  /\ occupied \in SUBSET HostPorts
  /\ dockerfiles = {}
  /\ classification = NoClassification

RunNext ==
  \/ \E ports \in PortLists : \E instanceId \in CallerIds : RunContainer(ports, instanceId)
  \/ \E call \in dockerCalls : PortsChecked(call)
  \/ \E call \in dockerCalls : \E code \in {0, 1} : RunClosed(call, code)
  \/ \E port \in HostPorts : PortChanges(port)

RunSpec == RunInit /\ [][RunNext]_vars

(***************************************************************************)
(* DockerService.stopContainer next to runContainer.  A call goes through  *)
(* the stages "stopping" (docker stop runs), "closed" and "failed" (it has *)
(* closed with code 0, with another code), "stopping, killing" and         *)
(* "killing" (docker kill runs beside or after it); `timer` tells that the *)
(* 30-second timer has not fired yet.  The container of Instance i has the *)
(* id DockerContainerId(i).                                                *)
(***************************************************************************)
\* stopContainer is called: lines 227-229 and 248-257 (the timer is set)
StopContainer(instanceId) ==
  /\ nEvents < MaxEvents
  /\ nEvents' = nEvents + 1
  /\ spawned' = spawned \cup {<<"stop", instanceId, "">>}
  /\ dockerCalls' = dockerCalls \cup
       {[DockerCall(nEvents', "stopContainer", instanceId, "", "", << >>, "stopping")
           EXCEPT !.timer = TRUE]}
  /\ UNCHANGED <<instances, currentInstance, pc, stopCalls, statusProbes,
                 healthTimer, tickProbes, alive, processes, monitoringIntervals,
                 healthChecks, metrics, errorHistory, reply, monitoringVars, classification, requests, held, timers,
                 buildCache, occupied, dockerfiles, dockerReply>>

\* docker stop closed: lines 231-241; the timer stays set
StopClosed(call, code) ==
  /\ call \in dockerCalls
  /\ call.op = "stopContainer"
  /\ call.stage \in {"stopping", "stopping, killing"}
  /\ dockerCalls' = (dockerCalls \ {call}) \cup
       (IF call.stage = "stopping" /\ ~call.timer
        THEN {}
        ELSE {[call EXCEPT !.settled = TRUE,
                           !.stage = IF call.stage = "stopping, killing"
                                     THEN "killing"
                                     ELSE IF code = 0 THEN "closed" ELSE "failed"]})
  /\ IF code = 0
     THEN /\ processes' = processes \ {call.instanceId}
          /\ dockerReply' = Settle(call, DockerReturned(call, ""))
     ELSE /\ dockerReply' = Settle(call, DockerThrew(call,
                 "Failed to stop container: " \o ToString(DockerContainerId(call.instanceId))))
          /\ UNCHANGED processes
  /\ UNCHANGED <<instances, currentInstance, pc, stopCalls, nEvents, statusProbes,
                 healthTimer, tickProbes, alive, monitoringIntervals,
                 healthChecks, metrics, errorHistory, reply, monitoringVars, classification, requests, held, timers,
                 buildCache, spawned, occupied, dockerfiles>>

\* the 30-second timer fired: lines 248-249, killContainer spawns docker kill
KillTimerFired(call) ==
  /\ call \in dockerCalls
  /\ call.op = "stopContainer"
  /\ call.timer
  /\ spawned' = spawned \cup {<<"kill", call.instanceId, "">>}
  /\ dockerCalls' = (dockerCalls \ {call}) \cup
       {[call EXCEPT !.timer = FALSE,
                     !.stage = IF call.stage = "stopping"
                               THEN "stopping, killing" ELSE "killing"]}
  /\ UNCHANGED <<instances, currentInstance, pc, stopCalls, nEvents, statusProbes,
                 healthTimer, tickProbes, alive, processes, monitoringIntervals,
                 healthChecks, metrics, errorHistory, reply, monitoringVars, classification, requests, held, timers,
                 buildCache, occupied, dockerfiles, dockerReply>>

\* docker kill closed, whatever its code: killContainer resolves, lines
\* 249-254
KillClosed(call) ==
  /\ call \in dockerCalls
  /\ call.op = "stopContainer"
  /\ call.stage \in {"stopping, killing", "killing"}
  /\ dockerCalls' = (dockerCalls \ {call}) \cup
       (IF call.stage = "killing"
        THEN {}
        ELSE {[call EXCEPT !.settled = TRUE, !.stage = "stopping"]})
  /\ processes' = processes \ {call.instanceId}
  /\ dockerReply' = Settle(call, DockerReturned(call, ""))
  /\ UNCHANGED <<instances, currentInstance, pc, stopCalls, nEvents, statusProbes,
                 healthTimer, tickProbes, alive, monitoringIntervals,
                 healthChecks, metrics, errorHistory, reply, monitoringVars, classification, requests, held, timers,
                 buildCache, spawned, occupied, dockerfiles>>

StopNext ==
  \/ RunNext
  \/ \E instanceId \in CallerIds : StopContainer(instanceId)
  \/ \E call \in dockerCalls : \E code \in {0, 1} : StopClosed(call, code)
  \/ \E call \in dockerCalls : KillTimerFired(call)
  \/ \E call \in dockerCalls : KillClosed(call)

StopSpec == RunInit /\ [][StopNext]_vars

(***************************************************************************)
(* createDockerError called on its own.  A message is made of the texts    *)
(* the rules look for, so that several rules match the same message.       *)
(***************************************************************************)
Phrases ==
  <<"Cannot connect to the Docker daemon", "port is already allocated",
    "already in use", "No such file or directory", "Dockerfile",
    "build failed", "RUN", "timeout", "timed out", "docker: command not found">>

\* the phrases chosen, in the order of Phrases, one per line of output
RECURSIVE MessageOf(_, _)
MessageOf(chosen, k) ==
  IF k > Len(Phrases) THEN ""
  ELSE IF k \in chosen THEN Phrases[k] \o "\n" \o MessageOf(chosen, k + 1)
  ELSE MessageOf(chosen, k + 1)

DockerMessages == {MessageOf(chosen, 1) : chosen \in SUBSET (1..Len(Phrases))}

ClassifierInit ==
  /\ AdapterIdle
  /\ dockerfiles = {}
  /\ occupied = {}
  /\ classification \in
       {[message |-> message, operation |-> operation, outcome |-> "called"] :
          message \in DockerMessages, operation \in Operations}

\* createDockerError, lines 300-383: the first branch hands the error to
\* handleError (lines 285-295), which overflows the stack or returns the
\* error it has appended to the history; the other branches return
CreateDockerError ==
  /\ classification.outcome = "called"
  /\ LET message == classification.message
         context == ErrorContext(classification.operation, 0)
     IN  IF ReentersHandleError(message)
         THEN IF HandleErrorOverflows(message, context)
              THEN /\ classification' =
                        [message |-> message, operation |-> context.operation,
                         outcome |-> "threw", thrown |-> StackOverflowMessage]
                   /\ UNCHANGED errorHistory
              ELSE /\ classification' =
                        [message |-> message, operation |-> context.operation,
                         outcome |-> "returned",
                         error |-> categorizeError(message, context)]
                   /\ errorHistory' =
                        addToHistory(errorHistory, categorizeError(message, context))
         ELSE /\ classification' =
                   [message |-> message, operation |-> context.operation,
                    outcome |-> "returned",
                    error |-> createDockerError(message, context)]
              /\ UNCHANGED errorHistory
  /\ UNCHANGED <<instances, currentInstance, pc, stopCalls, nEvents, statusProbes,
                 healthTimer, tickProbes, alive, processes, monitoringIntervals,
                 healthChecks, metrics, reply, monitoringVars, adapterVars, requests, held, timers>>

ClassifierNext == CreateDockerError

ClassifierSpec == ClassifierInit /\ [][ClassifierNext]_vars

(***************************************************************************)
(* handleError called on its own.  A message is made of texts the domain   *)
(* tests look for, so that several domains match the same message.         *)
(***************************************************************************)
DomainPhrases ==
  <<"Docker", "container", "image", "git", "repository", "clone", "config",
    "annotation", "yaml", "docker: command not found", "exit status 1">>

RECURSIVE DomainMessageOf(_, _)
DomainMessageOf(chosen, k) ==
  IF k > Len(DomainPhrases) THEN ""
  ELSE IF k \in chosen THEN DomainPhrases[k] \o "\n" \o DomainMessageOf(chosen, k + 1)
  ELSE DomainMessageOf(chosen, k + 1)

\* at most MaxPhrases of the phrases make a message
MaxPhrases == 3

DomainMessages ==
  {DomainMessageOf(chosen, 1) :
     chosen \in {c \in SUBSET (1..Len(DomainPhrases)) : Cardinality(c) <= MaxPhrases}}

\* the operation names of the contexts
DomainOperations ==
  {"startComponent", "stopComponent", "buildImage", "git-clone", "load-config"}

HandleErrorInit ==
  /\ AdapterIdle
  /\ dockerfiles = {}
  /\ occupied = {}
  /\ classification \in
       {[message |-> message, operation |-> operation, outcome |-> "called"] :
          message \in DomainMessages, operation \in DomainOperations}

\* handleError, lines 285-295: categorizeError returns and the error is
\* appended to the history, or the classification overflows the stack
HandleErrorCalled ==
  /\ classification.outcome = "called"
  /\ LET message == classification.message
         context == ErrorContext(classification.operation, 0)
     IN  IF HandleErrorOverflows(message, context)
         THEN /\ classification' =
                   [message |-> message, operation |-> context.operation,
                    outcome |-> "threw", thrown |-> StackOverflowMessage]
              /\ UNCHANGED errorHistory
         ELSE /\ classification' =
                   [message |-> message, operation |-> context.operation,
                    outcome |-> "returned",
                    error |-> categorizeError(message, context)]
              /\ errorHistory' =
                   addToHistory(errorHistory, categorizeError(message, context))
  /\ UNCHANGED <<instances, currentInstance, pc, stopCalls, nEvents, statusProbes,
                 healthTimer, tickProbes, alive, processes, monitoringIntervals,
                 healthChecks, metrics, reply, monitoringVars, adapterVars, requests, held, timers>>

HandleErrorNext == HandleErrorCalled

HandleErrorSpec == HandleErrorInit /\ [][HandleErrorNext]_vars

(***************************************************************************)
(* A start() whose source acquisition fails: the catch block of            *)
(* cloneRepository rewrites the error of the download or the extraction,   *)
(* and the catch block of startComponent hands the rewritten error to      *)
(* handleError.                                                            *)
(***************************************************************************)
SourceLocations ==
  {SourceLocation(e) : e \in Entities} \cup
    {"https://github.com/acme/api", "https://github.com/acme/docker-app",
     "https://github.com/acme/image-resizer", "https://github.com/acme/gitops",
     "https://github.com/acme/container-tools"}

\* the messages of the errors the download and the extraction reject with
RawAcquisitionErrors ==
  {"Not Found", "Request failed with status code 404", "Bad credentials",
   "Request failed with status code 401", "Request failed with status code 403",
   "API rate limit exceeded for installation", "incorrect header check",
   "connect ETIMEDOUT 140.82.112.6:443", "read ECONNRESET",
   "unexpected end of file"}

\* lines 474-485: the error cloneRepository rethrows
cloneRepositoryRethrows(errorMessage, sourceLocation) ==
  IF Includes(errorMessage, "Not Found") \/ Includes(errorMessage, "404")
  THEN "Repository not found: " \o sourceLocation
         \o ". Please check the repository URL and access permissions."
  ELSE IF \/ Includes(errorMessage, "Bad credentials")
          \/ Includes(errorMessage, "401")
          \/ Includes(errorMessage, "403")
  THEN "Authentication failed for repository: " \o sourceLocation
         \o ". Please check the GitHub integration credentials in app-config.yaml."
  ELSE IF Includes(errorMessage, "rate limit")
  THEN "GitHub API rate limit exceeded. Please try again later or check your GitHub integration configuration."
  ELSE "Failed to download repository: " \o errorMessage

AcquisitionInit ==
  /\ AdapterIdle
  /\ dockerfiles = {}
  /\ occupied = {}
  /\ classification \in
       {[sourceLocation |-> sourceLocation, message |-> errorMessage,
         operation |-> "startComponent", outcome |-> "downloading"] :
          sourceLocation \in SourceLocations, errorMessage \in RawAcquisitionErrors}

\* the download or the extraction rejected: the catch block, lines 465-485
CloneRepositoryFailed ==
  /\ classification.outcome = "downloading"
  /\ classification' =
       [classification EXCEPT
          !.message = cloneRepositoryRethrows(classification.message,
                                              classification.sourceLocation),
          !.outcome = "called"]
  /\ UNCHANGED <<instances, currentInstance, pc, stopCalls, nEvents, statusProbes,
                 healthTimer, tickProbes, alive, processes, monitoringIntervals,
                 healthChecks, metrics, errorHistory, reply, monitoringVars,
                 adapterVars, requests, held, timers>>

AcquisitionNext == CloneRepositoryFailed \/ HandleErrorCalled

AcquisitionSpec == AcquisitionInit /\ [][AcquisitionNext]_vars

(***************************************************************************)
(* The router: POST /start.  The handler parses the body, awaits the       *)
(* credentials and the catalog, tests the annotation and calls             *)
(* startComponent with the entity the catalog returned.                    *)
(***************************************************************************)
EnabledAnnotation == "runner.backstage.io/enabled"

\* the catalog: the annotations of each entity, by name
Catalog ==
  ("web"    :> (EnabledAnnotation :> "true")) @@
  ("docs"   :> (EnabledAnnotation :> "false")) @@
  ("legacy" :> (EnabledAnnotation :> "True")) @@
  ("lib"    :> << >>)

\* the request bodies: an entityRef in or out of the catalog, or none
StartBodies ==
  {[entityRef |-> ComponentRef(e)] : e \in DOMAIN Catalog \cup {"ghost"}}
    \cup {[instanceId |-> "1"]}

Principals == {"user", "service"}

Undefined == "undefined"

NoEntity == "null"

\* catalog.getEntityByRef: the entity's name, or null
getEntityByRef(entityRef) ==
  IF \E e \in DOMAIN Catalog : ComponentRef(e) = entityRef
  THEN CHOOSE e \in DOMAIN Catalog : ComponentRef(e) = entityRef
  ELSE NoEntity

\* the annotation read whatever its case
runnerEnabledIgnoresCase(entity) ==
  IF EnabledAnnotation \in DOMAIN Catalog[entity]
  THEN ToLowerCase(Catalog[entity][EnabledAnnotation])
  ELSE Undefined

\* line 45: entity.metadata.annotations?.['runner.backstage.io/enabled']
runnerEnabled(entity) ==
  IF EnabledAnnotation \in DOMAIN Catalog[entity]
  THEN Catalog[entity][EnabledAnnotation]
  ELSE Undefined

RouterThrew(message) == Threw("POST /start", 0, message)

\* a POST /start arrives: lines 31-36
PostStart(body, principal) ==
  /\ UNCHANGED <<held, timers>>
  /\ nEvents < MaxEvents
  /\ nEvents' = nEvents + 1
  /\ IF "entityRef" \notin DOMAIN body
     THEN /\ reply' = RouterThrew("InputError: entityRef: Required")
          /\ UNCHANGED requests
     ELSE /\ requests' = requests \cup
               {[n |-> nEvents', entityRef |-> body.entityRef,
                 principal |-> principal, stage |-> "credentials"]}
          /\ UNCHANGED reply
  /\ UNCHANGED <<instances, currentInstance, pc, stopCalls, statusProbes,
                 healthTimer, tickProbes, alive, processes, monitoringIntervals,
                 healthChecks, metrics, errorHistory, monitoringVars,
                 adapterVars, classification>>

\* httpAuth.credentials answered: lines 36-39
CredentialsAnswered(request) ==
  /\ UNCHANGED <<held, timers>>
  /\ request \in requests
  /\ request.stage = "credentials"
  /\ IF request.principal = "user"
     THEN /\ requests' = (requests \ {request})
               \cup {[request EXCEPT !.stage = "catalog"]}
          /\ UNCHANGED reply
     ELSE /\ requests' = requests \ {request}
          /\ reply' = RouterThrew("NotAllowedError: This endpoint does not allow 'service' credentials")
  /\ UNCHANGED <<instances, currentInstance, pc, stopCalls, nEvents, statusProbes,
                 healthTimer, tickProbes, alive, processes, monitoringIntervals,
                 healthChecks, metrics, errorHistory, monitoringVars,
                 adapterVars, classification>>

\* catalog.getEntityByRef answered: lines 39-51
CatalogAnswered(request) ==
  /\ UNCHANGED <<held, timers>>
  /\ request \in requests
  /\ request.stage = "catalog"
  /\ requests' = requests \ {request}
  /\ LET entity == getEntityByRef(request.entityRef)
     IN  IF entity = NoEntity
         THEN /\ reply' = RouterThrew("NotFoundError: Entity not found: " \o request.entityRef)
              /\ UNCHANGED <<instances, currentInstance, pc, stopCalls, nEvents,
                             statusProbes, healthTimer, tickProbes, alive,
                             processes, monitoringIntervals, healthChecks,
                             metrics, errorHistory, monitoringVars,
                             adapterVars, classification>>
         ELSE IF runnerEnabled(entity) # "true"
         THEN /\ reply' = RouterThrew("InputError: Component is not enabled for runner")
              /\ UNCHANGED <<instances, currentInstance, pc, stopCalls, nEvents,
                             statusProbes, healthTimer, tickProbes, alive,
                             processes, monitoringIntervals, healthChecks,
                             metrics, errorHistory, monitoringVars,
                             adapterVars, classification>>
         ELSE startComponentEntered(entity)

RouterInit ==
  /\ AdapterIdle
  /\ dockerfiles = {}
  /\ occupied = {}
  /\ classification = NoClassification

RouterNext ==
  \/ \E body \in StartBodies : \E principal \in Principals : PostStart(body, principal)
  \/ \E request \in requests : CredentialsAnswered(request)
  \/ \E request \in requests : CatalogAnswered(request)

RouterSpec == RouterInit /\ [][RouterNext]_vars

(***************************************************************************)
(* The read-only operations of RunnerServiceImpl next to start, stop and   *)
(* status: getLogs, getInstanceStats, getInstanceHealth,                   *)
(* getInstanceMetrics and getInstanceErrors.                               *)
(***************************************************************************)
ContainerProjections == {"logs", "stats", "health", "metrics"}

NotRunningMessage(id) == "Instance " \o ToString(id) \o " not found or not running"

\* getLogs, getInstanceStats, getInstanceHealth, getInstanceMetrics: lines
\* 311-352; what docker or the monitoring engine answers is not kept
ContainerProjection(op, id) ==
  /\ op \in ContainerProjections
  /\ reply' = IF id \notin Created \/ instances[id].containerId = 0
              THEN Threw(op, id, NotRunningMessage(id))
              ELSE Returned(op, id)
  /\ UNCHANGED <<instances, currentInstance, pc, stopCalls, nEvents, statusProbes,
                 healthTimer, tickProbes, alive, processes, monitoringIntervals,
                 healthChecks, metrics, errorHistory, monitoringVars,
                 adapterVars, classification, requests, held, timers>>

\* getInstanceErrors, lines 364-366: the entries of the history whose
\* context carries the id
GetInstanceErrors(id) ==
  /\ reply' = Returned("errors", id)
  /\ UNCHANGED <<instances, currentInstance, pc, stopCalls, nEvents, statusProbes,
                 healthTimer, tickProbes, alive, processes, monitoringIntervals,
                 healthChecks, metrics, errorHistory, monitoringVars,
                 adapterVars, classification, requests, held, timers>>

ProjectionNext ==
  \/ Next
  \/ \E op \in ContainerProjections : \E id \in InstanceIds : ContainerProjection(op, id)
  \/ \E id \in InstanceIds : GetInstanceErrors(id)

ProjectionSpec == Init /\ [][ProjectionNext]_vars

(***************************************************************************)
(* start() of components whose .runner/config.yml is read and then         *)
(* validated.  The runner section of the file is a record of the keys the  *)
(* file has; a file without the section has none.                          *)
(***************************************************************************)
DescribedEntities ==
  {"web", "compose", "untyped", "no-dockerfile", "empty-dockerfile",
   "no-ports", "empty-ports", "no-runner"}

\* yaml.parse(configContent).runner
RunnerSection(e) ==
  CASE e = "web" ->
         [type |-> "docker", dockerfile |-> "./Dockerfile", ports |-> <<3000>>,
          healthCheck |-> TRUE]
    [] e = "compose" ->
         [type |-> "compose", dockerfile |-> "./Dockerfile", ports |-> <<3000>>]
    [] e = "untyped" ->
         [dockerfile |-> "./Dockerfile", ports |-> <<3000>>]
    [] e = "no-dockerfile" ->
         [type |-> "docker", ports |-> <<3000>>]
    [] e = "empty-dockerfile" ->
         [type |-> "docker", dockerfile |-> "", ports |-> <<3000>>]
    [] e = "no-ports" ->
         [type |-> "docker", dockerfile |-> "./Dockerfile"]
    [] e = "empty-ports" ->
         [type |-> "docker", dockerfile |-> "./Dockerfile", ports |-> << >>]
    [] OTHER -> << >>

DescribedEntity(componentRef) ==
  CHOOSE e \in DescribedEntities : ComponentRef(e) = componentRef

Valid(config) == [ok |-> TRUE, config |-> config]

Invalid(message) == [ok |-> FALSE, message |-> message]

\* the ports are not tested
validateConfigSkipsPorts(config) ==
  IF "type" \notin DOMAIN config \/ config.type # "docker"
  THEN Invalid("Invalid runner configuration: type must be \"docker\"")
  ELSE IF "dockerfile" \notin DOMAIN config \/ config.dockerfile = ""
  THEN Invalid("Invalid runner configuration: dockerfile is required")
  ELSE Valid([type |-> "docker", dockerfile |-> config.dockerfile,
              ports |-> IF "ports" \in DOMAIN config THEN config.ports ELSE << >>,
              healthCheck |-> "healthCheck" \in DOMAIN config /\ config.healthCheck])

\* ConfigService.validateConfig, lines 61-82
validateConfig(config) ==
  IF "type" \notin DOMAIN config \/ config.type # "docker"
  THEN Invalid("Invalid runner configuration: type must be \"docker\"")
  ELSE IF "dockerfile" \notin DOMAIN config \/ config.dockerfile = ""
  THEN Invalid("Invalid runner configuration: dockerfile is required")
  ELSE IF "ports" \notin DOMAIN config \/ Len(config.ports) = 0
  THEN Invalid("Invalid runner configuration: ports array is required")
  ELSE Valid([type |-> "docker", dockerfile |-> config.dockerfile,
              ports |-> config.ports,
              healthCheck |-> "healthCheck" \in DOMAIN config /\ config.healthCheck])

\* the file was read: getRunnerConfig validates it (ConfigService lines
\* 19-38) and startComponent goes on to the download (lines 171-176) or to
\* its catch block (lines 208-238)
ConfigValidated(i) ==
  /\ UNCHANGED <<monitoringVars, adapterVars, classification, requests, held, timers>>
  /\ pc[i] = "getRunnerConfig"
  /\ LET validated == validateConfig(RunnerSection(DescribedEntity(instances[i].componentRef)))
         context   == ErrorContext("startComponent", i)
     IN  IF validated.ok
         THEN /\ instances' = [instances EXCEPT ![i] =
                   Step([instances[i] EXCEPT !.ports = validated.config.ports],
                        "downloading_repository", "in_progress")]
              /\ pc' = [pc EXCEPT ![i] = "downloadTarballArchive"]
              /\ UNCHANGED <<errorHistory, reply>>
         ELSE LET message ==
                    "Failed to read runner configuration: " \o validated.message
              IN  /\ pc' = [pc EXCEPT ![i] = "threw"]
                  /\ IF HandleErrorOverflows(message, context)
                     THEN /\ reply' = Threw("start", i, StackOverflowMessage)
                          /\ UNCHANGED <<instances, errorHistory>>
                     ELSE LET runnerError == categorizeError(message, context)
                          IN  /\ errorHistory' = addToHistory(errorHistory, runnerError)
                              /\ instances' = [instances EXCEPT ![i] =
                                                 Failed(instances[i], runnerError)]
                              /\ reply' = Threw("start", i, runnerError.userMessage)
  /\ UNCHANGED <<currentInstance, stopCalls, nEvents, statusProbes, healthTimer,
                 tickProbes, alive, processes, monitoringIntervals,
                 healthChecks, metrics>>

ConfigNext ==
  \/ \E e \in DescribedEntities : StartComponent(e)
  \/ \E i \in Created : ConfigValidated(i)
  \/ \E i \in Created : RepositoryDownloaded(i)
  \/ \E i \in Created : TarballExtracted(i)

ConfigSpec == Init /\ [][ConfigNext]_vars

(***************************************************************************)
(* The claims.                                                             *)
(***************************************************************************)
Active(i) == instances[i].status \in {"starting", "running"}

SlotHolderRunning ==
  /\ currentInstance \in Created
  /\ instances[currentInstance].status = "running"

Steps(i) == instances[i].deploymentProgress.steps

BusyReply ==
  Threw("start", 0, "Another component is already running. Stop it first.")

\* C1: in every reachable state at most one Instance has status starting or
\* running.
C1_AtMostOneActive ==
  Cardinality({i \in Created : Active(i)}) <= 1

\* C2: while an Instance is still starting, a start() call creates no
\* Instance: the instance list keeps its length.
C2_StartWhileStartingRefused ==
  [][(\E j \in Created : instances[j].status = "starting")
       => Len(instances') = Len(instances)]_vars

\* C3: while the slot holder is running no start() creates an Instance, and
\* the start() that is refused with 'Another component is already running'
\* is refused because the slot holder is running and changes nothing but
\* the reply.
C3_StartWhileRunningRejected ==
  [][/\ SlotHolderRunning => Len(instances') = Len(instances)
     /\ (reply' = BusyReply /\ reply # BusyReply) =>
          /\ SlotHolderRunning
          /\ UNCHANGED <<instances, currentInstance, pc, stopCalls, nEvents,
                         statusProbes, healthTimer, tickProbes, alive,
                         processes, monitoringIntervals, healthChecks,
                         metrics, errorHistory>>]_vars

C3_Witness ==
  /\ reply = BusyReply
  /\ SlotHolderRunning
  /\ Len(instances) = 1

\* C4: in no state of a start() that has not failed is a step of its
\* Instance in_progress or completed while the step before it is not
\* completed; these are the states a start() that succeeds passes through.
C4_StepsInOrder ==
  \A i \in Created :
    pc[i] # "threw" =>
      \A k \in 2..Len(StepTypes) :
        Steps(i)[k] \in {"in_progress", "completed"} => Steps(i)[k - 1] = "completed"

\* C5: when the call a start() awaits at stage k rejects, the start() ends
\* with every step after k pending, the Instance in status error, and
\* Instance.error equal to the userMessage raised to the caller and recorded
\* last in the history.
C5_FailureHaltsPipeline ==
  [][\A i \in Created :
       (pc[i] \in {Awaits[k] : k \in 1..Len(Awaits)} /\ pc'[i] = "threw") =>
         /\ instances'[i].status = "error"
         /\ reply' = Threw("start", i, instances'[i].error)
         /\ Len(errorHistory') = Len(errorHistory) + 1
         /\ errorHistory'[Len(errorHistory')].userMessage = instances'[i].error
         /\ \A k \in 1..Len(StepTypes) :
              k > StepIndex(instances[i].deploymentProgress.currentStep)
                => instances'[i].deploymentProgress.steps[k] = "pending"]_vars

\* C6: the step on which start() returns leaves the Instance running, with
\* the descriptor's ports, the container id the run printed, all five steps
\* completed, overallProgress 100 and isComplete.
C6_StartedInstance ==
  [][\A i \in Created :
       (pc[i] = "runContainer" /\ pc'[i] = "returned") =>
         /\ reply' = Returned("start", i)
         /\ instances'[i].status = "running"
         /\ instances'[i].ports = RunnerConfig(EntityOf(instances[i].componentRef)).ports
         /\ instances'[i].containerId = DockerContainerId(i)
         /\ \A k \in 1..Len(StepTypes) :
              instances'[i].deploymentProgress.steps[k] = "completed"
         /\ instances'[i].deploymentProgress.overallProgress = 100
         /\ instances'[i].deploymentProgress.isComplete]_vars

C6_Witness ==
  \E i \in Created :
    /\ pc[i] = "returned"
    /\ reply = Returned("start", i)
    /\ instances[i].status = "running"
    /\ instances[i].ports = <<3000>>
    /\ instances[i].deploymentProgress.overallProgress = 100

\* C7: once an Instance's status is stopped or error, it never changes.
C7_TerminalStatuses ==
  [][\A i \in Created :
       instances[i].status \in {"stopped", "error"}
         => instances'[i].status = instances[i].status]_vars

\* C8: every change of an Instance's status is starting -> running,
\* running -> stopping, stopping -> stopped, running -> stopped, or a change
\* to error.
C8_AllowedTransitions ==
  [][\A i \in Created :
       instances'[i].status # instances[i].status =>
         \/ instances'[i].status = "error"
         \/ <<instances[i].status, instances'[i].status>> \in
              {<<"starting", "running">>, <<"running", "stopping">>,
               <<"stopping", "stopped">>, <<"running", "stopped">>}]_vars

\* C9: the step of stop(id) that invokes the runtime stop leaves the
\* Instance stopping and neither loop of its container set; no loop is set
\* while a runtime stop is awaited; and the step on which the runtime stop
\* succeeds leaves the Instance stopped, stoppedAt set, and the slot not
\* held by it.
C9_StopOrder ==
  [][\A i \in Created :
       /\ stopCalls'[i] > stopCalls[i] =>
            /\ instances'[i].status = "stopping"
            /\ instances[i].containerId # 0
       /\ stopCalls'[i] > 0 =>
            \A kind \in {"health", "metrics"} :
              <<instances'[i].containerId, kind>> \notin monitoringIntervals'
       /\ (stopCalls'[i] < stopCalls[i] /\ reply' = Returned("stop", i)) =>
            /\ instances'[i].status = "stopped"
            /\ instances'[i].stoppedAt
            /\ currentInstance' # i]_vars

C9_Witness ==
  \E i \in Created :
    /\ reply = Returned("stop", i)
    /\ instances[i].containerId # 0
    /\ instances[i].status = "stopped"
    /\ instances[i].stoppedAt
    /\ currentInstance = 0

\* C10: the step on which the runtime stop of stop(id) fails appends one
\* classified entry for that Instance to the error history, leaves the
\* Instance in status error with Instance.error its userMessage, and raises
\* that userMessage.
C10_StopFailureClassified ==
  [][\A i \in Created :
       (stopCalls'[i] < stopCalls[i] /\ reply'.outcome = "threw") =>
         /\ Len(errorHistory') = Len(errorHistory) + 1
         /\ SubSeq(errorHistory', 1, Len(errorHistory)) = errorHistory
         /\ LET recorded == errorHistory'[Len(errorHistory')]
            IN  /\ recorded.message \in StopFailureMessages(instances[i].containerId)
                /\ recorded.context = ErrorContext("stopComponent", i)
                /\ recorded.userMessage # recorded.message
                /\ instances'[i].status = "error"
                /\ instances'[i].error = recorded.userMessage
                /\ reply' = Threw("stop", i, recorded.userMessage)]_vars

C10_Witness ==
  \E i \in Created :
    /\ reply.op = "stop" /\ reply.id = i /\ reply.outcome = "threw"
    /\ instances[i].status = "error"
    /\ instances[i].error = reply.message
    /\ Len(errorHistory) > 0
    /\ errorHistory[Len(errorHistory)].context.operation = "stopComponent"

\* C11: the step on which the probe of status(id) finds the container of a
\* running Instance dead leaves the Instance stopped with stoppedAt set,
\* returns it, and leaves a slot that does not refuse a start(); a
\* status(id) that makes no probe changes nothing but its reply.
C11_StatusSelfHeals ==
  [][\A i \in Created :
       /\ (/\ statusProbes'[i] < statusProbes[i]
           /\ instances[i].status = "running"
           /\ ~isContainerRunning(instances[i].containerId)) =>
            /\ instances'[i].status = "stopped"
            /\ instances'[i].stoppedAt
            /\ reply' = Returned("status", i)
            /\ ~SlotBusy'
       /\ (/\ reply' # reply
           /\ reply' = Returned("status", i)
           /\ statusProbes' = statusProbes) =>
            UNCHANGED <<instances, currentInstance, errorHistory>>]_vars

\* C12: once stop(id) has returned, no step appends a HealthCheck or a
\* metrics sample for the container of that Instance.
C12_NoSamplesAfterStop ==
  [][\A i \in Created :
       (reply = Returned("stop", i) /\ instances[i].containerId # 0) =>
         LET c == instances[i].containerId
         IN  /\ healthChecks'[c].checks = healthChecks[c].checks
             /\ metrics'[c] = metrics[c]]_vars

\* C13: the HealthCheck list of every monitored container holds at most
\* maxHealthCheckHistory entries, in the order they were written.
C13_HealthHistoryBounded ==
  \A c \in DOMAIN healthChecks :
    LET checks == healthChecks[c].checks
    IN  /\ Len(checks) <= maxHealthCheckHistory
        /\ \A k \in 1..Len(checks) : \A m \in 1..Len(checks) :
             k < m => checks[k].timestamp < checks[m].timestamp

LastN(s, n) == IF Len(s) > n THEN SubSeq(s, Len(s) - n + 1, Len(s)) ELSE s

\* C14: after every step the metrics history of every container holds at
\* most maxMetricsHistory samples in non-decreasing timestamp order, and a step
\* that changes a history leaves the maxMetricsHistory latest of the old
\* samples followed by one new sample stamped with the current time.
C14_MetricsHistoryBounded ==
  [][\A c \in DOMAIN metrics' :
       /\ Len(metrics'[c]) <= maxMetricsHistory
       /\ \A k \in 1..Len(metrics'[c]) : \A m \in 1..Len(metrics'[c]) :
            k < m => metrics'[c][k].timestamp <= metrics'[c][m].timestamp
       /\ (c \in DOMAIN metrics /\ metrics'[c] # metrics[c]) =>
            \E p \in metricsProbes[c] :
              metrics'[c] = LastN(Append(metrics[c], [timestamp |-> now', probe |-> p]),
                                  maxMetricsHistory)]_vars

C14_Witness ==
  \E c \in DOMAIN metrics :
    /\ Len(metrics[c]) = maxMetricsHistory
    /\ metrics[c][1].probe > metrics[c][2].probe
    /\ metrics[c][1].timestamp > MaxTicks + 1
    /\ metricsProbes[c] = {}

\* C15: after every step the error history holds at most maxHistorySize
\* entries; a call of handleError on a history short of the cap appends its
\* error, and one on a full history drops exactly the oldest entry and
\* appends its error, the other entries keeping their order.
C15_ErrorHistoryBounded ==
  [][/\ Len(errorHistory') <= maxHistorySize
     /\ nEvents' # nEvents =>
          LET recorded == errorHistory'[Len(errorHistory')]
          IN  /\ errorHistory' # << >>
              /\ recorded.context = ErrorContext(recorded.context.operation, NextInstanceId)
              /\ errorHistory' =
                   IF Len(errorHistory) < maxHistorySize
                   THEN Append(errorHistory, recorded)
                   ELSE Append(Tail(errorHistory), recorded)]_vars

C15_Witness ==
  /\ Len(errorHistory) = maxHistorySize
  /\ errorHistory[1].context.instanceId = 3
  /\ errorHistory[maxHistorySize].context.instanceId = maxHistorySize + 2
  /\ nEvents = 2


\* C16: once a build for (sourcePath, dockerfile) has succeeded and until
\* cleanup() clears the cache, the image reference kept for that pair stays
\* the one of the first successful build, and a buildImage call that finds the
\* pair in the cache returns that reference without starting a build process.
C16_CachedImageReturned ==
  [][/\ \A call \in dockerCalls :
          ( /\ call.op = "buildImage" /\ call.stage = "access"
            /\ call \notin dockerCalls'
            /\ Cached(CacheKey(call.repoPath, call.dockerfile)) )
          => /\ dockerReply' = DockerReturned(call,
                                 buildCache[CacheKey(call.repoPath, call.dockerfile)])
             /\ spawned' = spawned
     /\ \A cacheKey \in DOMAIN buildCache :
          \/ buildCache' = << >>
          \/ /\ cacheKey \in DOMAIN buildCache'
             /\ buildCache'[cacheKey] = buildCache[cacheKey]]_vars

\* C17: when the port check finds a requested port occupied, runContainer
\* throws 'Ports already in use', no container process is started and the
\* tracked run processes are unchanged.
C17_OccupiedPortAborts ==
  [][\A call \in dockerCalls :
       ( /\ call.op = "runContainer" /\ call.stage = "ports"
         /\ call \notin dockerCalls'
         /\ \E i \in 1..Len(call.ports) : call.ports[i] \in occupied )
       => /\ dockerReply'.op = "runContainer"
          /\ dockerReply'.instanceId = call.instanceId
          /\ dockerReply'.outcome = "threw"
          /\ Includes(dockerReply'.value, "Ports already in use")
          /\ spawned' = spawned
          /\ processes' = processes
          /\ \A later \in dockerCalls' : later.n # call.n]_vars

\* a second container is refused for its taken ports while the first one runs
C17_Witness ==
  /\ dockerReply = [op |-> "runContainer", instanceId |-> 2, outcome |-> "threw",
                    value |-> "Ports already in use: 8080"]
  /\ processes = {1}
  /\ spawned = {<<"run", 1, "">>}


\* C18: when buildImage rejects because the descriptor's Dockerfile is absent,
\* the start() ends with the building_image step failed, the Instance in
\* status error, Instance.error mentioning the Dockerfile path, and the error
\* recorded last in the history has code DOCKERFILE_NOT_FOUND and is neither
\* recoverable nor retryable.
C18_DockerfileAbsent ==
  [][\A i \in Created :
       LET dockerfile == RunnerConfig(EntityOf(instances[i].componentRef)).dockerfile
           recorded   == errorHistory'[Len(errorHistory')]
       IN  ( /\ pc[i] = "buildImage" /\ pc'[i] = "threw"
             /\ Len(errorHistory') = Len(errorHistory) + 1
             /\ recorded.message = "Dockerfile not found at: " \o dockerfile )
           => /\ instances'[i].status = "error"
              /\ instances'[i].deploymentProgress.currentStep = "building_image"
              /\ Steps(i)'[StepIndex("building_image")] = "failed"
              /\ Includes(instances'[i].error, dockerfile)
              /\ recorded.code = "DOCKERFILE_NOT_FOUND"
              /\ ~recorded.recoverable
              /\ ~recorded.retryable]_vars

\* C19: when runContainer rejects during start() because a requested port is
\* occupied, the error recorded for the Instance is PORT_ALREADY_IN_USE, of
\* medium severity and not retryable.
C19_PortConflictClassified ==
  [][\A i \in Created :
       LET recorded == errorHistory'[Len(errorHistory')]
       IN  ( /\ pc[i] = "runContainer" /\ pc'[i] = "threw"
             /\ Len(errorHistory') = Len(errorHistory) + 1
             /\ Includes(recorded.message, "Ports already in use") )
           => /\ recorded.context.instanceId = i
              /\ recorded.code = "PORT_ALREADY_IN_USE"
              /\ recorded.severity = "medium"
              /\ ~recorded.retryable]_vars


\* the classification the rules give, the first matching rule deciding
C20_FirstMatchingRule(message) ==
  IF Includes(message, "Cannot connect to the Docker daemon")
  THEN <<"DOCKER_DAEMON_NOT_RUNNING", "high", TRUE, TRUE>>
  ELSE IF Includes(message, "port is already allocated") \/ Includes(message, "already in use")
  THEN <<"PORT_ALREADY_IN_USE", "medium", TRUE, FALSE>>
  ELSE IF Includes(message, "No such file or directory") /\ Includes(message, "Dockerfile")
  THEN <<"DOCKERFILE_NOT_FOUND", "high", FALSE, FALSE>>
  ELSE IF Includes(message, "build failed") \/ Includes(message, "RUN")
  THEN <<"DOCKER_BUILD_FAILED", "high", FALSE, TRUE>>
  ELSE IF Includes(message, "timeout") \/ Includes(message, "timed out")
  THEN <<"DOCKER_OPERATION_TIMEOUT", "medium", TRUE, TRUE>>
  ELSE <<"DOCKER_OPERATION_FAILED", "medium", TRUE, TRUE>>

\* C20: a createDockerError call returns, and what it returns has the code,
\* severity, recoverable and retryable of the first rule its message matches
\* in the order daemon, port, Dockerfile, build, timeout, and of
\* DOCKER_OPERATION_FAILED when no rule matches.
C20_RuleOrder ==
  classification.outcome \in {"returned", "threw"} =>
    /\ classification.outcome = "returned"
    /\ <<classification.error.code, classification.error.severity,
         classification.error.recoverable, classification.error.retryable>>
         = C20_FirstMatchingRule(classification.message)


DockerCodes ==
  {"DOCKER_DAEMON_NOT_RUNNING", "PORT_ALREADY_IN_USE", "DOCKERFILE_NOT_FOUND",
   "DOCKER_BUILD_FAILED", "DOCKER_OPERATION_TIMEOUT", "DOCKER_OPERATION_FAILED"}

GitCodes ==
  {"GIT_NOT_INSTALLED", "REPOSITORY_NOT_FOUND", "GIT_AUTHENTICATION_FAILED",
   "GIT_OPERATION_FAILED"}

ConfigCodes ==
  {"INVALID_CONFIGURATION", "MISSING_RUNNER_ANNOTATION", "CONFIGURATION_ERROR"}

\* C21: the error handleError returns is of the container-runtime domain when
\* the message or operation matches it, else of the source-acquisition domain
\* when that matches, else of the configuration domain when that matches, and
\* otherwise the generic fallback of medium severity, recoverable and
\* retryable.
C21_DomainOrder ==
  classification.outcome = "returned" =>
    LET message == classification.message
        context == ErrorContext(classification.operation, 0)
        error   == classification.error
    IN  /\ errorHistory = <<error>>
        /\ IF isDockerError(message, context) THEN error.code \in DockerCodes
           ELSE IF isGitError(message, context) THEN error.code \in GitCodes
           ELSE IF isConfigError(message, context) THEN error.code \in ConfigCodes
           ELSE /\ error.code = "UNKNOWN_ERROR"
                /\ error.severity = "medium"
                /\ error.recoverable
                /\ error.retryable

\* a message of the runtime and of the source domain was given a runtime code
C21_Witness ==
  /\ classification.outcome = "returned"
  /\ classification.message = "container\nrepository\n"
  /\ classification.operation = "git-clone"
  /\ classification.error.code = "DOCKER_OPERATION_FAILED"

\* C22: the error recorded for a start() whose source acquisition failed has
\* a source-acquisition code, whatever the repository locator.
C22_AcquisitionClassified ==
  classification.outcome \in {"returned", "threw"}
  => /\ classification.outcome = "returned"
     /\ classification.error.code \in GitCodes
     /\ errorHistory = <<classification.error>>


\* C23: every step on which a start() or a stop() fails appends exactly one
\* entry to the error history, the entry's context carries the id of the
\* Instance the call was about, and the message raised is the entry's
\* userMessage and not the raw message.
C23_FailureRecordedOnce ==
  [][( /\ reply'.outcome = "threw"
       /\ reply'.op \in {"start", "stop"}
       /\ (reply' # reply \/ errorHistory' # errorHistory) )
     => /\ Len(errorHistory') = Len(errorHistory) + 1
        /\ SubSeq(errorHistory', 1, Len(errorHistory)) = errorHistory
        /\ LET recorded == errorHistory'[Len(errorHistory')]
           IN  /\ recorded.context.instanceId = reply'.id
               /\ reply'.message = recorded.userMessage
               /\ reply'.message # recorded.message]_vars


\* the catalog holds the entity and its enabled annotation is 'true'
C24_InCatalogAndEnabled(entityRef) ==
  \E e \in DOMAIN Catalog :
    /\ ComponentRef(e) = entityRef
    /\ EnabledAnnotation \in DOMAIN Catalog[e]
    /\ Catalog[e][EnabledAnnotation] = "true"

\* C24: an Instance is created or the slot changes only on the step that
\* hands on a start request for a component that is in the catalog with its
\* enabled annotation equal to 'true'; a request for any other component is
\* rejected on the step that reads the catalog's answer, with the Instances
\* and the slot unchanged.
C24_OnlyEnabledStart ==
  [][/\ (instances' # instances \/ currentInstance' # currentInstance) =>
          \E request \in requests \ requests' :
            /\ request.stage = "catalog"
            /\ C24_InCatalogAndEnabled(request.entityRef)
            /\ Len(instances') = Len(instances) + 1
            /\ instances'[Len(instances')].componentRef = request.entityRef
     /\ \A request \in requests \ requests' :
          (request.stage = "catalog" /\ ~C24_InCatalogAndEnabled(request.entityRef)) =>
            /\ reply'.op = "POST /start"
            /\ reply'.outcome = "threw"
            /\ instances' = instances
            /\ currentInstance' = currentInstance]_vars

\* a request for a component that is not enabled was rejected while the
\* Instance of an enabled one holds the slot
C24_Witness ==
  /\ reply = RouterThrew("InputError: Component is not enabled for runner")
  /\ Len(instances) = 1
  /\ instances[1].componentRef = ComponentRef("web")
  /\ currentInstance = 1


\* C25: a logs, stats, health, metrics or errors call for an id that is
\* unknown, or whose Instance has no container, throws a not-found error, and
\* no such call changes an Instance, the slot or a history.
C25_ProjectionsReadOnly ==
  [][(reply' # reply /\ reply'.op \in ContainerProjections \cup {"errors"}) =>
       /\ instances' = instances
       /\ currentInstance' = currentInstance
       /\ errorHistory' = errorHistory
       /\ healthChecks' = healthChecks
       /\ metrics' = metrics
       /\ (reply'.id \notin Created \/ instances[reply'.id].containerId = 0) =>
            /\ reply'.outcome = "threw"
            /\ Includes(reply'.message, "not found")]_vars


\* the descriptor's type is not 'docker', or it names no dockerfile, or its
\* ports are absent or empty
C26_InvalidDescriptor(config) ==
  \/ "type" \notin DOMAIN config
  \/ config.type # "docker"
  \/ "dockerfile" \notin DOMAIN config
  \/ config.dockerfile = ""
  \/ "ports" \notin DOMAIN config
  \/ config.ports = << >>

\* C26: a start() of a component with an invalid descriptor never awaits the
\* download, the extraction, the build or the run: it is reading the
\* descriptor or it has failed, with no port, no container, and every step
\* after the first still pending.
C26_InvalidFailsFast ==
  \A i \in Created :
    C26_InvalidDescriptor(RunnerSection(DescribedEntity(instances[i].componentRef))) =>
      /\ pc[i] \in {"getRunnerConfig", "threw"}
      /\ instances[i].ports = << >>
      /\ instances[i].containerId = 0
      /\ instances[i].status \in {"starting", "error"}
      /\ pc[i] = "threw" => instances[i].status = "error"
      /\ \A k \in 2..Len(StepTypes) : Steps(i)[k] = "pending"
      /\ Steps(i)[1] \in {"pending", "failed"}

\* an empty port list has failed the start while a valid descriptor's start
\* has gone on to the extraction
C26_Witness ==
  /\ Len(instances) = 2
  /\ instances[1].componentRef = ComponentRef("empty-ports")
  /\ pc[1] = "threw"
  /\ instances[1].status = "error"
  /\ instances[2].componentRef = ComponentRef("web")
  /\ pc[2] = "extractTarball"


\* C27: whenever no call is in the middle of a step, the slot is empty or
\* names an Instance whose status is starting, running or stopping.
C27_SlotHolderActive ==
  currentInstance # 0 =>
    /\ currentInstance \in Created
    /\ instances[currentInstance].status \in {"starting", "running", "stopping"}


\* C28: docker kill is not spawned for a stopContainer call whose docker stop
\* has closed with code 0: a graceful stop that has completed is never
\* followed by a kill of that container.
C28_KillOnlyIfStopPending ==
  [][\A call \in dockerCalls :
       ( /\ call.op = "stopContainer"
         /\ <<"kill", call.instanceId, "">> \in spawned' \ spawned
         /\ \E after \in dockerCalls' : after.n = call.n /\ ~after.timer /\ call.timer )
       => call.stage # "closed"]_vars


\* the place of what a start() awaits in the order of its stages; 0 before
\* the first, one past the last once the call has ended
AwaitIndex(at) ==
  IF \E k \in 1..Len(Awaits) : Awaits[k] = at
  THEN CHOOSE k \in 1..Len(Awaits) : Awaits[k] = at
  ELSE IF at = "idle" THEN 0 ELSE Len(Awaits) + 1

C30_StoppedStaysUnknown ==
  [][\A c \in DOMAIN healthChecks :
       /\ (<<c, "health">> \in monitoringIntervals \ monitoringIntervals') =>
            /\ <<c, "metrics">> \notin monitoringIntervals'
            /\ healthChecks'[c].checks = healthChecks[c].checks
            /\ metrics'[c] = metrics[c]
            /\ healthChecks'[c].status = "unknown"
       /\ ( /\ healthChecks[c].status = "unknown"
            /\ <<c, "health">> \notin monitoringIntervals'
            /\ <<c, "metrics">> \notin monitoringIntervals' ) =>
            healthChecks'[c].status = "unknown"]_vars


\* C31: once cleanup() has left no loop and no health or metrics history,
\* no step other than a new startMonitoring brings a loop or a history back,
\* whatever probes were in flight.  (No step of this specification starts
\* monitoring again.)
C31_CleanupStaysClean ==
  [][( /\ monitoringIntervals = {}
       /\ healthChecks = << >>
       /\ metrics = << >> ) =>
     ( /\ monitoringIntervals' = {}
       /\ healthChecks' = << >>
       /\ metrics' = << >> )]_vars


\* C32: the value a reader of the error history, of a container's metrics
\* or of a container's health was handed is, at every later moment, what it
\* was when the read returned.
C32_SnapshotOnRead == held.source # "none" => Observed = held.seen


\* the two DeploymentProgress values a step update writes
Progresses == {instances[1].deploymentProgress, held.seen}

C33_Consistent(progress) ==
  LET total     == Len(progress.steps)
      completed == Cardinality({k \in 1..total : progress.steps[k] = "completed"})
      distance  == progress.overallProgress * total - 100 * completed
  IN  /\ 2 * distance <= total /\ 2 * distance > -total
      /\ progress.hasError <=> \E k \in 1..total : progress.steps[k] = "failed"
      /\ progress.isComplete <=> (completed = total \/ progress.hasError)
      /\ progress.isComplete => progress.completedAt # 0

C33_Stamped(before, after) ==
  /\ before.completedAt # 0 => after.completedAt = before.completedAt
  /\ before.completedAt = 0 =>
       after.completedAt = IF after.isComplete THEN after.updates ELSE 0

\* C33: every step update leaves overallProgress the rounded percentage of
\* completed steps, hasError true exactly when a step is failed and
\* isComplete true exactly when all steps are completed or hasError holds;
\* it stamps completedAt with its own time when isComplete holds and no
\* stamp was set, and leaves a stamp that was set as it is.
C33_ProgressDerived ==
  [][/\ C33_Consistent(instances'[1].deploymentProgress)
     /\ C33_Consistent(held'.seen)
     /\ C33_Stamped(instances[1].deploymentProgress, instances'[1].deploymentProgress)
     /\ C33_Stamped(held.seen, held'.seen)]_vars

\* a progress that was complete by a failed step, went back to incomplete
\* and is complete again by its five steps, with the stamp of the first time
C33_Witness ==
  \A progress \in Progresses :
    /\ progress.isComplete /\ ~progress.hasError
    /\ progress.overallProgress = 100
    /\ progress.completedAt # 0
    /\ progress.completedAt < progress.updates - 4


\* the step of the stage a start() call awaits; 0 for the descriptor read,
\* which precedes the first stage
StageStep(await) ==
  CASE await = "getRunnerConfig"        -> 0
    [] await = "downloadTarballArchive" -> StepIndex("downloading_repository")
    [] await = "extractTarball"         -> StepIndex("extracting_files")
    [] await = "buildImage"             -> StepIndex("building_image")
    [] await = "runContainer"           -> StepIndex("starting_container")

\* C34: the step on which a start() call fails leaves exactly the step of
\* the stage it awaited failed, every earlier step completed and no step
\* in_progress; when it awaited the descriptor, it leaves no step failed.
C34_FailedStepIsStage ==
  [][\A i \in Created :
       (pc[i] \in {Awaits[k] : k \in 1..Len(Awaits)} /\ pc'[i] = "threw") =>
         LET steps == instances'[i].deploymentProgress.steps
             stage == StageStep(pc[i])
         IN  /\ \A k \in 1..Len(steps) : steps[k] = "failed" <=> k = stage
             /\ \A k \in 1..Len(steps) : k < stage => steps[k] = "completed"
             /\ \A k \in 1..Len(steps) : steps[k] # "in_progress"]_vars


\* C35: every handleError call that has ended has returned a RunnerError
\* for the message it was given.
C35_HandleErrorReturns ==
  classification.outcome # "called" =>
    /\ classification.outcome = "returned"
    /\ classification.error.message = classification.message


\* C36: a step that writes an image under a key of the build cache ends a
\* buildImage call that had not been reported as failed or timed out, and
\* returns that image to its caller.
C36_CacheOnlySuccessfulBuilds ==
  [][\A key \in DOMAIN buildCache' :
       (key \notin DOMAIN buildCache \/ buildCache'[key] # buildCache[key]) =>
         \E call \in dockerCalls \ dockerCalls' :
           /\ call.op = "buildImage"
           /\ CacheKey(call.repoPath, call.dockerfile) = key
           /\ ~call.settled
           /\ dockerReply' = DockerReturned(call, buildCache'[key])]_vars


\* C37: in every state each key has at most one interval timer that was set
\* and not cleared, and a key the engine holds no interval for (it was never
\* started, or stopMonitoring has removed it) has none.
C37_OneLoopPerContainer ==
  \A key \in DOMAIN timers :
    /\ timers[key] <= 1
    /\ key \notin monitoringIntervals => timers[key] = 0


\* the status of the i-th Instance; none before it is created
StatusOf(i) == IF i \in Created THEN instances[i].status ELSE "none"

\* C38: when every awaited promise settles, every start() call in progress
\* leads to its end with its Instance running or in error, and every stop()
\* call awaiting stopContainer leads to its end with its Instance stopped or
\* in error.
C38_CallsComplete ==
  \A i \in InstanceIds :
    /\ (pc[i] \in {Awaits[k] : k \in 1..Len(Awaits)})
         ~> (pc[i] \in {"returned", "threw"} /\ StatusOf(i) \in {"running", "error"})
    /\ (stopCalls[i] > 0)
         ~> (stopCalls[i] = 0 /\ StatusOf(i) \in {"stopped", "error"})


\* a step of stop(i), of status(i) or of a health-check tick of Instance i
ActsOn(i) ==
  \/ stopCalls'[i] # stopCalls[i]
  \/ statusProbes'[i] # statusProbes[i]
  \/ tickProbes'[i] # tickProbes[i]
  \/ /\ reply'.op \in {"stop", "status"} /\ reply'.id = i
     /\ i \in Created
     /\ (reply' # reply \/ instances'[i] # instances[i])

\* C39: a step of stop(i), status(i) or a health-check tick of an Instance
\* i that does not hold the slot leaves the slot as it is, and a step that
\* clears the slot is such a step of the Instance that held it, leaving that
\* Instance stopped.
C39_SlotFrame ==
  [][/\ \A i \in InstanceIds :
          (ActsOn(i) /\ currentInstance # i) => currentInstance' = currentInstance
     /\ (currentInstance # 0 /\ currentInstance' = 0) =>
          /\ ActsOn(currentInstance)
          /\ instances'[currentInstance].status = "stopped"]_vars

\* the first Instance had a container and is stopped while the second holds
\* the slot
C39_Witness ==
  /\ Len(instances) = 2
  /\ currentInstance = 2
  /\ instances[1].status = "stopped"
  /\ instances[1].containerId # 0

=============================================================================
